---- MODULE Spec2Model ----


(***************************************************************************)
(* Speaking-turn evaluation service (app/routers/chat_router.py and the    *)
(* helpers it calls).  Texts are sequences of one-character strings, so    *)
(* that lower(), strip(), split() and the difflib matcher are computed     *)
(* rather than assumed.  Scores are exact rationals <<num, den>> where the *)
(* code uses floats.                                                       *)
(***************************************************************************)
EXTENDS Integers, Sequences, FiniteSets, TLC

(***************************************************************************)
(* Bounds of the model.                                                    *)
(***************************************************************************)
MaxRefWords == 3
MaxRecWords == 3
MaxSegments == 2

(***************************************************************************)
(* Generic helpers.                                                        *)
(***************************************************************************)
Range(s) == {s[i] : i \in DOMAIN s}

SeqsUpTo(S, n) == UNION {[1..k -> S] : k \in 0..n}

RECURSIVE SumSeq(_)
SumSeq(s) == IF s = <<>> THEN 0 ELSE Head(s) + SumSeq(Tail(s))

RECURSIVE Flatten(_)
Flatten(ss) == IF ss = <<>> THEN <<>> ELSE Head(ss) \o Flatten(Tail(ss))

Min2(a, b) == IF a <= b THEN a ELSE b

SetMax(S) == CHOOSE x \in S : \A y \in S : y <= x

SetMin(S) == CHOOSE x \in S : \A y \in S : x <= y

(***************************************************************************)
(* str methods used by the code: lower(), strip(), split(),                *)
(* strip(string.punctuation).                                              *)
(***************************************************************************)
Whitespace == {" "}

Punctuation == {".", ","}

LowerChar(c) == CASE c = "A" -> "a"
                  [] c = "B" -> "b"
                  [] c = "C" -> "c"
                  [] OTHER -> c

lower(s) == [i \in DOMAIN s |-> LowerChar(s[i])]

\* s.strip(chars): drop the leading and trailing characters that are in chars
StripChars(s, chars) ==
    LET keep == {i \in DOMAIN s : s[i] \notin chars}
    IN IF keep = {} THEN <<>>
       ELSE SubSeq(s, SetMin(keep), SetMax(keep))

strip(s) == StripChars(s, Whitespace)

\* s.split(): the maximal runs of non-whitespace characters, in order
RECURSIVE split(_)
split(s) ==
    LET t == strip(s)
        ws == {i \in DOMAIN t : t[i] \in Whitespace}
    IN IF t = <<>> THEN <<>>
       ELSE IF ws = {} THEN <<t>>
       ELSE <<SubSeq(t, 1, SetMin(ws) - 1)>>
            \o split(SubSeq(t, SetMin(ws) + 1, Len(t)))

\* " ".join(words)
RECURSIVE JoinWords(_)
JoinWords(ws) ==
    IF ws = <<>> THEN <<>>
    ELSE IF Len(ws) = 1 THEN ws[1]
    ELSE ws[1] \o <<" ">> \o JoinWords(Tail(ws))

(***************************************************************************)
(* difflib.SequenceMatcher(None, a, b) for sequences shorter than 200      *)
(* elements (no junk, no popular elements).  Indices are 0-based as in     *)
(* Python; a[i] of the code is a[i+1] here.                                *)
(***************************************************************************)
RECURSIVE MatchLen(_, _, _, _, _, _)
MatchLen(a, b, i, j, ahi, bhi) ==
    IF i < ahi /\ j < bhi /\ a[i + 1] = b[j + 1]
    THEN 1 + MatchLen(a, b, i + 1, j + 1, ahi, bhi)
    ELSE 0

\* find_longest_match: the longest block a[i:i+k] == b[j:j+k] inside
\* a[alo:ahi], b[blo:bhi]; of those the one starting earliest in a, and of
\* those the one starting earliest in b; (alo, blo, 0) when nothing matches.
find_longest_match(a, b, alo, ahi, blo, bhi) ==
    LET cand == (alo..(ahi - 1)) \X (blo..(bhi - 1))
        len(p) == MatchLen(a, b, p[1], p[2], ahi, bhi)
        best == IF cand = {} THEN 0 ELSE SetMax({len(p) : p \in cand})
    IN IF best = 0 THEN <<alo, blo, 0>>
       ELSE LET top == {p \in cand : len(p) = best}
                i == SetMin({p[1] : p \in top})
                j == SetMin({p[2] : p \in {q \in top : q[1] = i}})
            IN <<i, j, best>>

\* the recursion of get_matching_blocks, already in sorted order: the blocks
\* to the left of the longest match, the match, the blocks to its right
RECURSIVE MatchQueue(_, _, _, _, _, _)
MatchQueue(a, b, alo, ahi, blo, bhi) ==
    LET m == find_longest_match(a, b, alo, ahi, blo, bhi)
        i == m[1]
        j == m[2]
        k == m[3]
    IN IF k = 0 THEN <<>>
       ELSE (IF alo < i /\ blo < j
             THEN MatchQueue(a, b, alo, i, blo, j) ELSE <<>>)
            \o <<m>>
            \o (IF i + k < ahi /\ j + k < bhi
                THEN MatchQueue(a, b, i + k, ahi, j + k, bhi) ELSE <<>>)

\* adjacent blocks are collapsed into one
RECURSIVE Collapse(_, _)
Collapse(blocks, cur) ==
    IF blocks = <<>>
    THEN IF cur[3] > 0 THEN <<cur>> ELSE <<>>
    ELSE LET nxt == Head(blocks)
         IN IF cur[1] + cur[3] = nxt[1] /\ cur[2] + cur[3] = nxt[2]
            THEN Collapse(Tail(blocks), <<cur[1], cur[2], cur[3] + nxt[3]>>)
            ELSE (IF cur[3] > 0 THEN <<cur>> ELSE <<>>)
                 \o Collapse(Tail(blocks), nxt)

get_matching_blocks(a, b) ==
    Collapse(MatchQueue(a, b, 0, Len(a), 0, Len(b)), <<0, 0, 0>>)
        \o <<<<Len(a), Len(b), 0>>>>

\* get_opcodes: walk the matching blocks, emitting the gap before each block
\* (replace / delete / insert) and then the block itself (equal)
RECURSIVE OpcodesFrom(_, _, _)
OpcodesFrom(blocks, i, j) ==
    IF blocks = <<>> THEN <<>>
    ELSE LET ai == Head(blocks)[1]
             bj == Head(blocks)[2]
             size == Head(blocks)[3]
             tag == IF i < ai /\ j < bj THEN "replace"
                    ELSE IF i < ai THEN "delete"
                    ELSE IF j < bj THEN "insert"
                    ELSE ""
         IN (IF tag # ""
             THEN <<[tag |-> tag, i1 |-> i, i2 |-> ai, j1 |-> j, j2 |-> bj]>>
             ELSE <<>>)
            \o (IF size > 0
                THEN <<[tag |-> "equal", i1 |-> ai, i2 |-> ai + size,
                        j1 |-> bj, j2 |-> bj + size]>>
                ELSE <<>>)
            \o OpcodesFrom(Tail(blocks), ai + size, bj + size)

get_opcodes(a, b) == OpcodesFrom(get_matching_blocks(a, b), 0, 0)

\* ratio(): 2.0 * matches / (len(a) + len(b)), 1.0 when both are empty;
\* returned as the exact fraction <<2 * matches, len(a) + len(b)>>
ratio(a, b) ==
    LET blocks == get_matching_blocks(a, b)
        matches == SumSeq([n \in DOMAIN blocks |-> blocks[n][3]])
        length == Len(a) + Len(b)
    IN IF length = 0 THEN <<1, 1>> ELSE <<2 * matches, length>>

(***************************************************************************)
(* State.  One group of variables per part of the service.                 *)
(***************************************************************************)
VARIABLES
    \* pronunciation_assessment_from_file: its parameter and locals, and the
    \* recognition events the recognizer has fired at the callback so far
    reference_text, done, recognized_words, fluency_scores, durations, delivered,
    reference_words, opcodes, final_words, accuracy_score, fluency_score,
    completeness_score, pa_pc,
    \* calculate_intonation_score: the pitch statistics, the fallback's
    \* frequency samples, the exceptions caught and the value returned
    pitch_stats, values, primary_error, fallback_error, intonation_result,
    int_pc,
    \* process_chat_turn: the number of server processes that share the
    \* working directory, the content of tmp_audio/speaking_turn.wav, and per
    \* turn the request, the locals of the handler and what the caller gets
    workers, file, req, frame, response,
    \* grammar_feedback_from_gemini / generate_gemini_response: which of the
    \* two runs, the transcript it was given, the position of the loop over
    \* GEMINI_MODELS, the models tried so far with what each did, the locals
    \* raw_text and last_error, and the value returned
    gem_fn, gem_transcript, model_index, attempted, raw_text, last_error,
    gem_result, gem_pc,
    \* the session configuration of a request, the messages handed to
    \* generate_gemini_response and the result of get_tts_parameters
    config, messages, tts_parameters, cfg_pc,
    \* calculate_transcript_similarity: its two arguments and its result
    sim_text1, sim_text2, similarity, sim_pc

paVars == <<reference_text, done, recognized_words, fluency_scores, durations,
            delivered,
            reference_words, opcodes, final_words, accuracy_score, fluency_score,
            completeness_score, pa_pc>>

intVars == <<pitch_stats, values, primary_error, fallback_error,
             intonation_result, int_pc>>

turnVars == <<workers, file, req, frame, response>>

gemVars == <<gem_fn, gem_transcript, model_index, attempted, raw_text,
             last_error, gem_result, gem_pc>>

cfgVars == <<config, messages, tts_parameters, cfg_pc>>

simVars == <<sim_text1, sim_text2, similarity, sim_pc>>

vars == <<paVars, intVars, turnVars, gemVars, cfgVars, simVars>>

\* what a step of one part leaves alone
outsidePA == <<intVars, turnVars, gemVars, cfgVars, simVars>>

outsideInt == <<paVars, turnVars, gemVars, cfgVars, simVars>>

outsideTurn == <<paVars, intVars, gemVars, cfgVars, simVars>>

outsideGem == <<paVars, intVars, turnVars, cfgVars, simVars>>

outsideCfg == <<paVars, intVars, turnVars, gemVars, simVars>>

outsideSim == <<paVars, intVars, turnVars, gemVars, cfgVars>>

(***************************************************************************)
(* Exact fractions <<num, den>>, den >= 0; a fraction with den = 0 is the  *)
(* division the code cannot perform (ZeroDivisionError).                   *)
(***************************************************************************)
Frac(n, d) == <<n, d>>

NoValue == Frac(0, 1)

\* float('nan'): every comparison with it is false, every sum, difference,
\* product and quotient with it is nan again
NaN == Frac(0, 0)

IsNaN(x) == x[2] = 0

FracLe(x, y) == x[2] # 0 /\ y[2] # 0 /\ x[1] * y[2] <= y[1] * x[2]

FracLt(x, y) == x[2] # 0 /\ y[2] # 0 /\ x[1] * y[2] < y[1] * x[2]

FracEq(x, y) == x[2] # 0 /\ y[2] # 0 /\ x[1] * y[2] = y[1] * x[2]

RECURSIVE GCD(_, _)
GCD(a, b) == IF b = 0 THEN a ELSE GCD(b, a % b)

Abs(n) == IF n < 0 THEN -n ELSE n

\* the same number in lowest terms
Reduced(n, d) ==
    LET g == GCD(Abs(n), d)
    IN IF d = 0 THEN NaN ELSE Frac(n \div g, d \div g)

FracAdd(x, y) ==
    IF IsNaN(x) \/ IsNaN(y) THEN NaN
    ELSE Reduced(x[1] * y[2] + y[1] * x[2], x[2] * y[2])

FracSub(x, y) ==
    IF IsNaN(x) \/ IsNaN(y) THEN NaN
    ELSE Reduced(x[1] * y[2] - y[1] * x[2], x[2] * y[2])

\* x * n / d for integers n and d > 0
FracScale(x, n, d) == IF IsNaN(x) THEN NaN ELSE Reduced(x[1] * n, x[2] * d)

\* the builtins min(a, b) and max(a, b): b only when b < a, resp. b > a
PyMin(a, b) == IF FracLt(b, a) THEN b ELSE a

PyMax(a, b) == IF FracLt(a, b) THEN b ELSE a

\* round(x, 1), in tenths: the nearest tenth; when x lies exactly between
\* two tenths the float's binary expansion decides, so either may result
RoundTenths(x) ==
    IF IsNaN(x) THEN {NaN}
    ELSE LET q == (10 * x[1]) \div x[2]
             r == (10 * x[1]) % x[2]
         IN IF 2 * r < x[2] THEN {Frac(q, 10)}
            ELSE IF 2 * r > x[2] THEN {Frac(q + 1, 10)}
            ELSE {Frac(q, 10), Frac(q + 1, 10)}

(***************************************************************************)
(* calculate_intonation_score (app/utils/intonation_utils.py).             *)
(***************************************************************************)
MaxPitchFrames == 3

native_range == 70

native_std == 30

\* Hertz values Praat may report; a statistic over no voiced frame is nan
PitchMinChoices == {Frac(75, 1), Frac(100, 1), NaN}

PitchMaxChoices == {Frac(100, 1), Frac(160, 1), Frac(300, 1), Frac(600, 1), NaN}

PitchStdChoices == {Frac(0, 1), Frac(10, 1), Frac(30, 1), Frac(50, 1),
                    Frac(100, 1), NaN}

PitchStatsChoices ==
    {st \in [min_f0 : PitchMinChoices, max_f0 : PitchMaxChoices,
             std_f0 : PitchStdChoices] :
        IsNaN(st.min_f0) \/ IsNaN(st.max_f0) \/ FracLe(st.min_f0, st.max_f0)}

\* selected_array["frequency"]: one value per frame, 0 for an unvoiced frame
FrequencyChoices == {0, 60, 200, 400}

\* variant: the penalty above the band not capped at 50
_score_from_percent_NoCap(percent, ideal_min, ideal_max) ==
    IF FracLe(Frac(ideal_min, 1), percent) /\ FracLe(percent, Frac(ideal_max, 1))
    THEN Frac(100, 1)
    ELSE IF FracLt(percent, Frac(ideal_min, 1))
    THEN PyMax(Frac(0, 1), FracScale(percent, 100, ideal_min))
    ELSE LET over == FracSub(percent, Frac(ideal_max, 1))
             penalty == FracScale(over, 1, 2)
         IN PyMax(Frac(0, 1), FracSub(Frac(100, 1), penalty))

\* lines 66-89
_score_from_percent(percent, ideal_min, ideal_max) ==
    IF FracLe(Frac(ideal_min, 1), percent) /\ FracLe(percent, Frac(ideal_max, 1))
    THEN Frac(100, 1)
    ELSE IF FracLt(percent, Frac(ideal_min, 1))
    THEN PyMax(Frac(0, 1), FracScale(percent, 100, ideal_min))
    ELSE LET over == FracSub(percent, Frac(ideal_max, 1))
             penalty == PyMin(Frac(50, 1), FracScale(over, 1, 2))
         IN PyMax(Frac(0, 1), FracSub(Frac(100, 1), penalty))

\* lines 52-95: range_score * 0.7 + std_score * 0.3
PrimaryScoreOf(st) ==
    LET user_range == FracSub(st.max_f0, st.min_f0)
        pitch_range_percent == FracScale(user_range, 100, native_range)
        pitch_std_percent == FracScale(st.std_f0, 100, native_std)
        range_score == _score_from_percent(pitch_range_percent, 80, 120)
        std_score == _score_from_percent(pitch_std_percent, 70, 130)
    IN FracAdd(FracScale(range_score, 7, 10), FracScale(std_score, 3, 10))

\* variant: the ratio of the fallback used without max(0.0, min(1.0, ratio))
FallbackScoreOf_NoClamp(vals) ==
    LET non_zero == SelectSeq(vals, LAMBDA x : x # 0)
        overall_pitch == IF non_zero # <<>>
                         THEN Frac(SumSeq(non_zero), Len(non_zero))
                         ELSE Frac(0, 1)
    IN IF FracLe(overall_pitch, Frac(0, 1)) THEN Frac(0, 1)
       ELSE FracScale(FracSub(overall_pitch, Frac(80, 1)), 100, 300 - 80)

\* lines 106-115, before the final round(): 0.0 or ratio * 100.0
FallbackScoreOf(vals) ==
    LET non_zero == SelectSeq(vals, LAMBDA x : x # 0)
        overall_pitch == IF non_zero # <<>>
                         THEN Frac(SumSeq(non_zero), Len(non_zero))
                         ELSE Frac(0, 1)
        raw_ratio == FracScale(FracSub(overall_pitch, Frac(80, 1)), 1, 300 - 80)
        clamped == PyMax(Frac(0, 1), PyMin(Frac(1, 1), raw_ratio))
    IN IF FracLe(overall_pitch, Frac(0, 1)) THEN Frac(0, 1)
       ELSE FracScale(clamped, 100, 1)

IdleInt ==
    /\ pitch_stats = [min_f0 |-> NaN, max_f0 |-> NaN, std_f0 |-> NaN]
    /\ values = <<>>
    /\ primary_error = FALSE
    /\ fallback_error = FALSE
    /\ intonation_result = NoValue
    /\ int_pc = "idle"

StartInt ==
    /\ pitch_stats = [min_f0 |-> NaN, max_f0 |-> NaN, std_f0 |-> NaN]
    /\ values = <<>>
    /\ primary_error = FALSE
    /\ fallback_error = FALSE
    /\ intonation_result = NoValue
    /\ int_pc = "primary"

\* lines 44-50: Sound(), "To Pitch" and the four "Get ..." calls succeed
ExtractPitchStats ==
    /\ int_pc = "primary"
    /\ pitch_stats' \in PitchStatsChoices
    /\ int_pc' = "primary_score"
    /\ UNCHANGED <<values, primary_error, fallback_error, intonation_result>>
    /\ UNCHANGED outsideInt

\* lines 44-50 raise; line 99 catches
ExtractPitchStatsRaises ==
    /\ int_pc = "primary"
    /\ primary_error' = TRUE
    /\ int_pc' = "fallback"
    /\ UNCHANGED <<pitch_stats, values, fallback_error, intonation_result>>
    /\ UNCHANGED outsideInt

\* lines 52-97
ScorePrimary ==
    /\ int_pc = "primary_score"
    /\ intonation_result' \in RoundTenths(PrimaryScoreOf(pitch_stats))
    /\ int_pc' = "returned"
    /\ UNCHANGED <<pitch_stats, values, primary_error, fallback_error>>
    /\ UNCHANGED outsideInt

\* lines 103-105: Sound(), to_pitch() and selected_array succeed
FallbackExtract ==
    /\ int_pc = "fallback"
    /\ values' \in SeqsUpTo(FrequencyChoices, MaxPitchFrames)
    /\ int_pc' = "fallback_score"
    /\ UNCHANGED <<pitch_stats, primary_error, fallback_error,
                   intonation_result>>
    /\ UNCHANGED outsideInt

\* lines 103-105 raise; lines 116-117 return 0.0
FallbackExtractRaises ==
    /\ int_pc = "fallback"
    /\ fallback_error' = TRUE
    /\ intonation_result' = Frac(0, 1)
    /\ int_pc' = "returned"
    /\ UNCHANGED <<pitch_stats, values, primary_error>>
    /\ UNCHANGED outsideInt

\* lines 106-115
ScoreFallback ==
    /\ int_pc = "fallback_score"
    /\ intonation_result' \in RoundTenths(FallbackScoreOf(values))
    /\ int_pc' = "returned"
    /\ UNCHANGED <<pitch_stats, values, primary_error, fallback_error>>
    /\ UNCHANGED outsideInt

NextInt ==
    \/ ExtractPitchStats
    \/ ExtractPitchStatsRaises
    \/ ScorePrimary
    \/ FallbackExtract
    \/ FallbackExtractRaises
    \/ ScoreFallback

(***************************************************************************)
(* pronunciation_assessment_from_file (app/utils/azure_speech.py).         *)
(* A word is [id, word, error_type, accuracy_score]: id is the position of *)
(* the word object in the recognizer's stream (1, 2, ...), and 0 for a     *)
(* word object constructed locally.                                        *)
(***************************************************************************)
\* what the recognizer may report for one word (ErrorType of the service:
\* None, Mispronunciation, Insertion, Omission)
RecognizerWords ==
    { [word |-> <<"a">>, error_type |-> "None", accuracy_score |-> 100],
      [word |-> <<"B">>, error_type |-> "None", accuracy_score |-> 100],
      [word |-> <<"a">>, error_type |-> "None", accuracy_score |-> 60],
      [word |-> <<"b">>, error_type |-> "Mispronunciation", accuracy_score |-> 40],
      [word |-> <<"a">>, error_type |-> "Insertion", accuracy_score |-> 0],
      [word |-> <<"b">>, error_type |-> "Omission", accuracy_score |-> 0] }

\* segment-level fluency scores and per-word Duration ticks of the JSON result
FluencyChoices == {50, 100}

DurationChoices == {0, 1}

\* the words of the texts a caller passes as reference_text
ReferenceTokens == {<<"a">>, <<"B", ".">>}

ReferenceTexts ==
    {JoinWords(ts) : ts \in SeqsUpTo(ReferenceTokens, MaxRefWords) \ {<<>>}}

WithId(ws, base) ==
    [n \in DOMAIN ws |-> [id |-> base + n, word |-> ws[n].word,
                          error_type |-> ws[n].error_type,
                          accuracy_score |-> ws[n].accuracy_score]]

\* lines 106-108
ReferenceWordsOf(text) ==
    LET ws == split(lower(text))
    IN [n \in DOMAIN ws |-> StripChars(ws[n], Punctuation)]

\* variant: the recognized texts compared without lower()
RecognizedTexts_NoLower(rec) == [n \in DOMAIN rec |-> rec[n].word]

\* line 110: [x.word.lower() for x in recognized_words]
RecognizedTexts(rec) == [n \in DOMAIN rec |-> lower(rec[n].word)]

\* lines 116-117: word._error_type = "Insertion" when it was "None"
AsInsertion(w) ==
    IF w.error_type = "None" THEN [w EXCEPT !.error_type = "Insertion"] ELSE w

\* lines 121-126: PronunciationAssessmentWordResult of an omitted word
OmissionWord(word_text) ==
    [id |-> 0, word |-> word_text, error_type |-> "Omission",
     accuracy_score |-> 0]

\* variant: the second `if` written as `elif`, so that a `replace` range
\* appends no Omission words
AppendedFor_Elif(op, ref, rec) ==
    (IF op.tag \in {"insert", "replace"}
     THEN [n \in 1..(op.j2 - op.j1) |-> AsInsertion(rec[op.j1 + n])]
     ELSE <<>>)
    \o (IF op.tag = "delete"
        THEN [n \in 1..(op.i2 - op.i1) |-> OmissionWord(ref[op.i1 + n])]
        ELSE <<>>)
    \o (IF op.tag = "equal" THEN SubSeq(rec, op.j1 + 1, op.j2) ELSE <<>>)

\* variant: the two blocks of the loop body in the other order
AppendedFor_OmittedFirst(op, ref, rec) ==
    (IF op.tag \in {"delete", "replace"}
     THEN [n \in 1..(op.i2 - op.i1) |-> OmissionWord(ref[op.i1 + n])]
     ELSE <<>>)
    \o (IF op.tag \in {"insert", "replace"}
        THEN [n \in 1..(op.j2 - op.j1) |-> AsInsertion(rec[op.j1 + n])]
        ELSE <<>>)
    \o (IF op.tag = "equal" THEN SubSeq(rec, op.j1 + 1, op.j2) ELSE <<>>)

\* lines 114-129: what one opcode appends to final_words
AppendedFor(op, ref, rec) ==
    (IF op.tag \in {"insert", "replace"}
     THEN [n \in 1..(op.j2 - op.j1) |-> AsInsertion(rec[op.j1 + n])]
     ELSE <<>>)
    \o (IF op.tag \in {"delete", "replace"}
        THEN [n \in 1..(op.i2 - op.i1) |-> OmissionWord(ref[op.i1 + n])]
        ELSE <<>>)
    \o (IF op.tag = "equal" THEN SubSeq(rec, op.j1 + 1, op.j2) ELSE <<>>)

\* lines 109-111: diff.get_opcodes()
OpcodesOf(ref, rec) == get_opcodes(ref, RecognizedTexts(rec))

\* lines 112-129: final_words
FinalWordsOf(ops, ref, rec) ==
    Flatten([n \in DOMAIN ops |-> AppendedFor(ops[n], ref, rec)])

\* lines 115-117 assign to the word objects of recognized_words themselves:
\* recognized_words after the loop
RecognizedAfterAlign(ops, rec) ==
    LET relabelled(j) == \E n \in DOMAIN ops :
                            /\ ops[n].tag \in {"insert", "replace"}
                            /\ ops[n].j1 < j /\ j <= ops[n].j2
    IN [j \in DOMAIN rec |-> IF relabelled(j) THEN AsInsertion(rec[j])
                             ELSE rec[j]]

\* lines 131-134
AccuracyOf(final) ==
    LET final_accuracy_scores ==
            SelectSeq(final, LAMBDA w : w.error_type # "Insertion")
    IN Frac(SumSeq([n \in DOMAIN final_accuracy_scores |->
                        final_accuracy_scores[n].accuracy_score]),
            Len(final_accuracy_scores))

\* lines 135-137: zip() stops at the shorter list
FluencyOf(fs, ds) ==
    LET n == Min2(Len(fs), Len(ds))
    IN Frac(SumSeq([k \in 1..n |-> fs[k] * ds[k]]), SumSeq(ds))

\* variant: every recognized word counted, and no cap at 100
CompletenessOf_AllWordsNoCap(rec, ref) == Frac(Len(rec) * 100, Len(ref))

\* lines 138-143
CompletenessOf(rec, ref) ==
    LET none == Len(SelectSeq(rec, LAMBDA w : w.error_type = "None"))
        raw == Frac(none * 100, Len(ref))
    IN IF Len(ref) = 0 THEN raw
       ELSE IF FracLe(raw, Frac(100, 1)) THEN raw ELSE Frac(100, 1)

IdlePA ==
    /\ reference_text = <<>>
    /\ done = FALSE
    /\ recognized_words = <<>>
    /\ fluency_scores = <<>>
    /\ durations = <<>>
    /\ delivered = <<>>
    /\ reference_words = <<>>
    /\ opcodes = <<>>
    /\ final_words = <<>>
    /\ accuracy_score = NoValue
    /\ fluency_score = NoValue
    /\ completeness_score = NoValue
    /\ pa_pc = "idle"

StartPA ==
    /\ reference_text \in ReferenceTexts
    /\ done = FALSE
    /\ recognized_words = <<>>
    /\ fluency_scores = <<>>
    /\ durations = <<>>
    /\ delivered = <<>>
    /\ reference_words = <<>>
    /\ opcodes = <<>>
    /\ final_words = <<>>
    /\ accuracy_score = NoValue
    /\ fluency_score = NoValue
    /\ completeness_score = NoValue
    /\ pa_pc = "listening"

\* one recognition event: the words and the fluency score of its
\* pronunciation result, the summed Duration of its JSON result (0 when the
\* JSON result cannot be read), and whether the callback raised on it
Segment(ws, fluency, d, raised) ==
    [words |-> ws, fluency_score |-> fluency, duration |-> d, raised |-> raised]

\* lines 85-95: the recognized callback, one call per recognition segment
recognized ==
    /\ pa_pc = "listening" /\ ~done
    /\ Len(delivered) < MaxSegments
    /\ \E ws \in SeqsUpTo(RecognizerWords, 2),
          fluency \in FluencyChoices, d \in DurationChoices :
          /\ Len(recognized_words) + Len(ws) <= MaxRecWords
          /\ recognized_words' =
                 recognized_words \o WithId(ws, Len(recognized_words))
          /\ fluency_scores' = Append(fluency_scores, fluency)
          /\ durations' = Append(durations, d * Len(ws))
          /\ delivered' =
                 Append(delivered, Segment(ws, fluency, d * Len(ws), FALSE))
    /\ UNCHANGED <<reference_text, done, reference_words, opcodes, final_words,
                   accuracy_score, fluency_score, completeness_score, pa_pc>>
    /\ UNCHANGED outsidePA

\* lines 85-95 when the callback raises at lines 90-95 (the JSON result is
\* missing, or has no NBest entry, or has a word without Duration): lines
\* 88-89 have appended already, line 95 is never reached, nothing catches
\* inside the callback and the recognizer goes on to the next event
recognized_raises ==
    /\ pa_pc = "listening" /\ ~done
    /\ Len(delivered) < MaxSegments
    /\ \E ws \in SeqsUpTo(RecognizerWords, 1), fluency \in FluencyChoices :
          /\ Len(recognized_words) + Len(ws) <= MaxRecWords
          /\ recognized_words' =
                 recognized_words \o WithId(ws, Len(recognized_words))
          /\ fluency_scores' = Append(fluency_scores, fluency)
          /\ delivered' = Append(delivered, Segment(ws, fluency, 0, TRUE))
    /\ UNCHANGED <<reference_text, done, durations, reference_words, opcodes,
                   final_words, accuracy_score, fluency_score,
                   completeness_score, pa_pc>>
    /\ UNCHANGED outsidePA

\* lines 81-83: session_stopped or canceled
stop_cb ==
    /\ pa_pc = "listening" /\ ~done
    /\ done' = TRUE
    /\ UNCHANGED <<reference_text, recognized_words, fluency_scores, durations,
                   delivered, reference_words, opcodes, final_words,
                   accuracy_score, fluency_score, completeness_score, pa_pc>>
    /\ UNCHANGED outsidePA

\* lines 102-129: the wait loop ends, then the alignment
AlignWords ==
    /\ pa_pc = "listening" /\ done
    /\ reference_words' = ReferenceWordsOf(reference_text)
    /\ opcodes' = OpcodesOf(reference_words', recognized_words)
    /\ final_words' = FinalWordsOf(opcodes', reference_words', recognized_words)
    /\ recognized_words' = RecognizedAfterAlign(opcodes', recognized_words)
    /\ pa_pc' = "aligned"
    /\ UNCHANGED <<reference_text, done, fluency_scores, durations, delivered,
                   accuracy_score, fluency_score, completeness_score>>
    /\ UNCHANGED outsidePA

\* lines 131-134
ComputeAccuracy ==
    /\ pa_pc = "aligned"
    /\ LET v == AccuracyOf(final_words)
       IN IF v[2] = 0
          THEN pa_pc' = "raised" /\ UNCHANGED accuracy_score
          ELSE pa_pc' = "accuracy" /\ accuracy_score' = v
    /\ UNCHANGED <<reference_text, done, recognized_words, fluency_scores,
                   durations, delivered, reference_words, opcodes, final_words, fluency_score,
                   completeness_score>>
    /\ UNCHANGED outsidePA

\* lines 135-137
ComputeFluency ==
    /\ pa_pc = "accuracy"
    /\ LET v == FluencyOf(fluency_scores, durations)
       IN IF v[2] = 0
          THEN pa_pc' = "raised" /\ UNCHANGED fluency_score
          ELSE pa_pc' = "fluency" /\ fluency_score' = v
    /\ UNCHANGED <<reference_text, done, recognized_words, fluency_scores,
                   durations, delivered, reference_words, opcodes, final_words, accuracy_score,
                   completeness_score>>
    /\ UNCHANGED outsidePA

\* lines 138-151
ComputeCompleteness ==
    /\ pa_pc = "fluency"
    /\ LET v == CompletenessOf(recognized_words, reference_words)
       IN IF v[2] = 0
          THEN pa_pc' = "raised" /\ UNCHANGED completeness_score
          ELSE pa_pc' = "returned" /\ completeness_score' = v
    /\ UNCHANGED <<reference_text, done, recognized_words, fluency_scores,
                   durations, delivered, reference_words, opcodes, final_words, accuracy_score,
                   fluency_score>>
    /\ UNCHANGED outsidePA

NextPA ==
    \/ recognized
    \/ recognized_raises
    \/ stop_cb
    \/ AlignWords
    \/ ComputeAccuracy
    \/ ComputeFluency
    \/ ComputeCompleteness


\* lines 44-151 as one call: the segments the callback received, then the
\* alignment and the three scores; raised when a division has denominator 0
pronunciation_assessment_from_file(text, segments) ==
    LET heard == Flatten([n \in DOMAIN segments |-> segments[n].words])
        rec == WithId(heard, 0)
        fs == [n \in DOMAIN segments |-> segments[n].fluency_score]
        ds == [n \in DOMAIN segments |-> segments[n].duration]
        ref == ReferenceWordsOf(text)
        ops == OpcodesOf(ref, rec)
        final == FinalWordsOf(ops, ref, rec)
        accuracy == AccuracyOf(final)
        fluency == FluencyOf(fs, ds)
        completeness == CompletenessOf(RecognizedAfterAlign(ops, rec), ref)
    IN [raised |-> accuracy[2] = 0 \/ fluency[2] = 0 \/ completeness[2] = 0,
        accuracy |-> accuracy, completeness |-> completeness,
        fluency |-> fluency, final_words |-> final]

(***************************************************************************)
(* grammar_feedback_from_gemini and generate_gemini_response               *)
(* (app/utils/gemini_client.py).                                           *)
(***************************************************************************)
\* lines 13-20
GEMINI_MODELS ==
    <<"gemini-2.5-flash-lite", "gemini-2.0-flash-lite", "gemini-2.5-flash",
      "gemini-2.0-flash", "gemini-2.5-flash-preview-09-2025",
      "gemini-flash-latest">>

\* response.text of a candidate that answered, as the grammar coach; [fence]
\* stands for the three backquotes of a markdown code fence
GrammarTexts ==
    {"", "{}", " {} ", "Sorry, I cannot help.", "[]",
     "{grammar_score: 85, overall_feedback: Good, mistakes: [m1, malformed], user_translation: vi}",
     "[fence]json {grammar_score: 85, overall_feedback: Good, mistakes: [m1, malformed], user_translation: vi} [fence]",
     "{grammar_score: 150}",
     "{grammar_score: high}"}

\* response.text of a candidate that answered, as the conversation partner
ReplyTexts ==
    {"", "{}", "Sorry, I cannot help.", "[]",
     "{bot_text: Hello, bot_translation: Xin chao}",
     "[fence]json {bot_text: Hello, bot_translation: Xin chao} [fence]",
     "{bot_text:  , bot_translation: }",
     "{bot_text: Hello}"}

ResponseTexts(fn) == IF fn = "grammar" THEN GrammarTexts ELSE ReplyTexts

\* response.text or "{}"
TextOr(text) == IF text # "" THEN text ELSE "{}"

\* lines 98-110 and 198-212: strip(), the code fences dropped, then the part
\* from the first "{" to the last "}"
Cleaned(raw) ==
    CASE raw = " {} " -> "{}"
      [] raw = "[fence]json {grammar_score: 85, overall_feedback: Good, mistakes: [m1, malformed], user_translation: vi} [fence]"
           -> "{grammar_score: 85, overall_feedback: Good, mistakes: [m1, malformed], user_translation: vi}"
      [] raw = "[fence]json {bot_text: Hello, bot_translation: Xin chao} [fence]"
           -> "{bot_text: Hello, bot_translation: Xin chao}"
      [] OTHER -> raw

Number(x) == [numeric |-> TRUE, value |-> x]

NotANumber == [numeric |-> FALSE, value |-> NaN]

\* an object read by json.loads: the keys it has and their values
Object(keys) ==
    [raises |-> FALSE, is_dict |-> TRUE, has |-> keys,
     grammar_score |-> Number(Frac(0, 1)), overall_feedback |-> "",
     mistakes |-> <<>>, user_translation |-> "",
     bot_text |-> "", bot_translation |-> ""]

\* json.loads(cleaned): raises on text that is not JSON, otherwise the value
json_loads(cleaned) ==
    CASE cleaned = "{}" -> Object({})
      [] cleaned = "[]" -> [Object({}) EXCEPT !.is_dict = FALSE]
      [] cleaned = "{grammar_score: 85, overall_feedback: Good, mistakes: [m1, malformed], user_translation: vi}"
           -> [Object({"grammar_score", "overall_feedback", "mistakes",
                       "user_translation"})
                  EXCEPT !.grammar_score = Number(Frac(85, 1)),
                         !.overall_feedback = "Good",
                         !.mistakes = <<"m1", "malformed">>,
                         !.user_translation = "vi"]
      [] cleaned = "{grammar_score: 150}"
           -> [Object({"grammar_score"})
                  EXCEPT !.grammar_score = Number(Frac(150, 1))]
      [] cleaned = "{grammar_score: high}"
           -> [Object({"grammar_score"}) EXCEPT !.grammar_score = NotANumber]
      [] cleaned = "{bot_text: Hello, bot_translation: Xin chao}"
           -> [Object({"bot_text", "bot_translation"})
                  EXCEPT !.bot_text = "Hello", !.bot_translation = "Xin chao"]
      [] cleaned = "{bot_text:  , bot_translation: }"
           -> [Object({"bot_text", "bot_translation"})
                  EXCEPT !.bot_text = " ", !.bot_translation = ""]
      [] cleaned = "{bot_text: Hello}"
           -> [Object({"bot_text"}) EXCEPT !.bot_text = "Hello"]
      [] OTHER -> [Object({}) EXCEPT !.raises = TRUE]

\* data.get(key, default)
Get(data, key, default) == IF key \in data.has THEN data[key] ELSE default

\* str(x).strip() of a field of the reply
StrStrip(s) == IF s = " " THEN "" ELSE s

GrammarResult(score, tip, mistakes, translation) ==
    [raised |-> FALSE, grammar_score |-> score, grammar_tip |-> tip,
     mistakes |-> mistakes, user_translation |-> translation]

\* line 144
NoTranscriptFeedback ==
    GrammarResult(Frac(0, 1), "No transcript provided for grammar evaluation.",
                  <<>>, "")

\* lines 195 and 257
ModelErrorFeedback ==
    GrammarResult(Frac(0, 1), "No grammar feedback due to a model error.",
                  <<>>, "")

\* line 223
ParseErrorFeedback ==
    GrammarResult(Frac(50, 1),
                  "I could not reliably parse the grammar feedback.", <<>>, "")

ReplyResult(text, translation) ==
    [raised |-> FALSE, bot_text |-> text, bot_translation |-> translation]

\* lines 94-95, 119, 121, 127-128
TroubleText == "I'm having trouble responding right now. Please try again."

TroubleTranslation == "Toi dang gap su co khi tra loi. Vui long thu lai sau."

\* lines 225-253: the fields of the parsed object; float() raises on a value
\* that is no number, .get raises on a value that is no object, the
\* malformed mistakes are skipped, the score is clamped to 0-100
GrammarFields(data) ==
    LET grammar_score == Get(data, "grammar_score", Number(Frac(0, 1)))
    IN IF ~data.is_dict \/ ~grammar_score.numeric
       THEN [ModelErrorFeedback EXCEPT !.raised = TRUE]
       ELSE GrammarResult(
                PyMax(Frac(0, 1), PyMin(Frac(100, 1), grammar_score.value)),
                Get(data, "overall_feedback", ""),
                SelectSeq(Get(data, "mistakes", <<>>),
                          LAMBDA m : m # "malformed"),
                Get(data, "user_translation", ""))

\* variant: when every model failed the neutral feedback of a parse error
grammar_after_loop_Neutral(raw, error) ==
    LET data == json_loads(Cleaned(raw))
        fields == GrammarFields(data)
    IN IF error /\ raw = "{}" THEN ParseErrorFeedback
       ELSE IF data.raises THEN ParseErrorFeedback
       ELSE IF fields.raised THEN ModelErrorFeedback
       ELSE fields

\* lines 190-257: what follows the loop over the models, within the outer
\* try whose handler returns the model-error feedback
grammar_after_loop(raw, error) ==
    LET data == json_loads(Cleaned(raw))
        fields == GrammarFields(data)
    IN IF error /\ raw = "{}" THEN ModelErrorFeedback
       ELSE IF data.raises THEN ParseErrorFeedback
       ELSE IF fields.raised THEN ModelErrorFeedback
       ELSE fields

\* lines 115-122: the try body; json.loads or .get may raise
ReplyFields(cleaned) ==
    LET data == json_loads(cleaned)
        bot_text == StrStrip(Get(data, "bot_text", ""))
        bot_translation == StrStrip(Get(data, "bot_translation", ""))
    IN IF data.raises \/ ~data.is_dict
       THEN [ReplyResult("", "") EXCEPT !.raised = TRUE]
       ELSE ReplyResult(IF bot_text = "" THEN TroubleText ELSE bot_text,
                        IF bot_translation = "" THEN TroubleTranslation
                        ELSE bot_translation)

\* variant: the fields returned as parsed, the exception of the try body not
\* caught
reply_after_loop_Unguarded(raw, error) ==
    LET data == json_loads(Cleaned(raw))
    IN IF error /\ raw = "{}" THEN ReplyResult(TroubleText, TroubleTranslation)
       ELSE IF data.raises \/ ~data.is_dict
       THEN [ReplyResult("", "") EXCEPT !.raised = TRUE]
       ELSE ReplyResult(StrStrip(Get(data, "bot_text", "")),
                        StrStrip(Get(data, "bot_translation", "")))

\* lines 91-129: what follows the loop over the models
reply_after_loop(raw, error) ==
    LET fields == ReplyFields(Cleaned(raw))
    IN IF error /\ raw = "{}" THEN ReplyResult(TroubleText, TroubleTranslation)
       ELSE IF fields.raised THEN ReplyResult(TroubleText, TroubleTranslation)
       ELSE fields

\* what a candidate does when it is asked
Answers(text) == [raises |-> FALSE, text |-> text]

Raises == [raises |-> TRUE, text |-> ""]

\* lines 78-89 and 175-188 as one loop: behaviour[i] is what the i-th model
\* does if it is asked; the loop ends at the first one that answers
RECURSIVE CandidateLoop(_, _, _)
CandidateLoop(behaviour, i, error) ==
    IF i > Len(GEMINI_MODELS)
    THEN [raw_text |-> "{}", last_error |-> error, asked |-> i - 1,
          answered |-> FALSE]
    ELSE IF behaviour[i].raises
    THEN CandidateLoop(behaviour, i + 1, TRUE)
    ELSE [raw_text |-> TextOr(behaviour[i].text), last_error |-> error,
          asked |-> i, answered |-> TRUE]

\* lines 132-257 as one call
grammar_feedback_from_gemini(transcript, behaviour) ==
    LET loop == CandidateLoop(behaviour, 1, FALSE)
    IN IF strip(transcript) = <<>> THEN NoTranscriptFeedback
       ELSE grammar_after_loop(loop.raw_text, loop.last_error)

\* lines 36-129 as one call
generate_gemini_response(behaviour) ==
    LET loop == CandidateLoop(behaviour, 1, FALSE)
    IN reply_after_loop(loop.raw_text, loop.last_error)

NoGemResult ==
    [raised |-> FALSE, grammar_score |-> NoValue, grammar_tip |-> "",
     mistakes |-> <<>>, user_translation |-> "",
     bot_text |-> "", bot_translation |-> ""]

IdleGem ==
    /\ gem_fn = "grammar"
    /\ gem_transcript = <<>>
    /\ model_index = 1
    /\ attempted = <<>>
    /\ raw_text = "{}"
    /\ last_error = FALSE
    /\ gem_result = NoGemResult
    /\ gem_pc = "idle"

\* one of the two functions is called
StartGem ==
    /\ gem_fn \in {"grammar", "reply"}
    /\ gem_transcript \in
          IF gem_fn = "grammar" THEN {<<>>, <<" ">>, <<"a">>} ELSE {<<"a">>}
    /\ model_index = 1
    /\ attempted = <<>>
    /\ raw_text = "{}"
    /\ last_error = FALSE
    /\ gem_result = NoGemResult
    /\ gem_pc = "called"

\* lines 143-144
NoTranscript ==
    /\ gem_pc = "called"
    /\ gem_fn = "grammar"
    /\ strip(gem_transcript) = <<>>
    /\ gem_result' = NoTranscriptFeedback @@ NoGemResult
    /\ gem_pc' = "returned"
    /\ UNCHANGED <<gem_fn, gem_transcript, model_index, attempted, raw_text,
                   last_error>>
    /\ UNCHANGED outsideGem

\* lines 44-79 and 146-177: the prompt is built, the loop is entered
BuildPrompt ==
    /\ gem_pc = "called"
    /\ gem_fn = "grammar" => strip(gem_transcript) # <<>>
    /\ gem_pc' = "loop"
    /\ UNCHANGED <<gem_fn, gem_transcript, model_index, attempted, raw_text,
                   last_error, gem_result>>
    /\ UNCHANGED outsideGem

\* lines 82-85 and 180-183: the model asked answers; break
CandidateAnswers ==
    /\ gem_pc = "loop"
    /\ \E text \in ResponseTexts(gem_fn) :
          /\ raw_text' = TextOr(text)
          /\ attempted' = Append(attempted,
                                 [model_name |-> GEMINI_MODELS[model_index],
                                  raised |-> FALSE, text |-> text])
    /\ gem_pc' = "after_loop"
    /\ UNCHANGED <<gem_fn, gem_transcript, model_index, last_error, gem_result>>
    /\ UNCHANGED outsideGem

\* lines 86-89 and 184-188: the model asked raises; the next one is tried
CandidateRaises ==
    /\ gem_pc = "loop"
    /\ attempted' = Append(attempted,
                           [model_name |-> GEMINI_MODELS[model_index],
                            raised |-> TRUE, text |-> ""])
    /\ last_error' = TRUE
    /\ model_index' = model_index + 1
    /\ gem_pc' = IF model_index = Len(GEMINI_MODELS) THEN "after_loop"
                 ELSE "loop"
    /\ UNCHANGED <<gem_fn, gem_transcript, raw_text, gem_result>>
    /\ UNCHANGED outsideGem

\* lines 190-257
GrammarReturns ==
    /\ gem_pc = "after_loop"
    /\ gem_fn = "grammar"
    /\ gem_result' = grammar_after_loop(raw_text, last_error) @@ NoGemResult
    /\ gem_pc' = "returned"
    /\ UNCHANGED <<gem_fn, gem_transcript, model_index, attempted, raw_text,
                   last_error>>
    /\ UNCHANGED outsideGem

\* lines 91-129
ReplyReturns ==
    /\ gem_pc = "after_loop"
    /\ gem_fn = "reply"
    /\ gem_result' = reply_after_loop(raw_text, last_error) @@ NoGemResult
    /\ gem_pc' = "returned"
    /\ UNCHANGED <<gem_fn, gem_transcript, model_index, attempted, raw_text,
                   last_error>>
    /\ UNCHANGED outsideGem

NextGem ==
    \/ NoTranscript
    \/ BuildPrompt
    \/ CandidateAnswers
    \/ CandidateRaises
    \/ GrammarReturns
    \/ ReplyReturns

(***************************************************************************)
(* build_system_message_from_config and get_tts_parameters                 *)
(* (app/services/chat_service.py), as process_chat_turn calls them.        *)
(***************************************************************************)
\* Optional[...]: None, or a value
Nothing == <<>>

Some(x) == <<x>>

\* schemas/chat_schema.py lines 11-18; botSpeed is one of three literals
SpeakingConfigs ==
    [scenario : {Nothing, Some(""), Some("Cafe")},
     level : {Nothing, Some("B1")},
     userRole : {Nothing, Some("Customer")},
     botTone : {Nothing, Some("Funny & Casual"), Some("Fast Native Speaker"),
                Some("Calm")},
     goal : {Nothing, Some("Order a coffee")},
     durationMinutes : {Nothing, Some(0), Some(30)},
     botSpeed : {Nothing, Some("slow"), Some("normal"), Some("fast")}]

\* req.config
ConfigChoices == {Nothing} \cup {Some(c) : c \in SpeakingConfigs}

\* the truth value of an optional string: neither None nor ""
Truthy(field) == field # Nothing /\ field[1] # ""

BaseSentence ==
    <<"You are an English speaking partner helping the learner practice conversation.">>

\* f"{label}{value}{end}" as its three pieces
Clause(label, value, end) == <<label, value, end>>

\* variant: the duration tested for its truth value like the other fields
build_system_message_from_config_TruthyDuration(c) ==
    LET system_parts ==
            <<BaseSentence>>
            \o (IF Truthy(c.scenario)
                THEN <<Clause("Scenario: ", c.scenario[1], ".")>> ELSE <<>>)
            \o (IF Truthy(c.level)
                THEN <<Clause("Learner level: ", c.level[1], ".")>> ELSE <<>>)
            \o (IF Truthy(c.userRole)
                THEN <<Clause("Learner role: ", c.userRole[1], ".")>> ELSE <<>>)
            \o (IF Truthy(c.botTone)
                THEN <<Clause("Your tone: ", c.botTone[1], ".")>> ELSE <<>>)
            \o (IF Truthy(c.goal)
                THEN <<Clause("Conversation goal: ", c.goal[1], ".")>>
                ELSE <<>>)
            \o (IF c.durationMinutes # Nothing /\ c.durationMinutes[1] # 0
                THEN <<Clause("Target duration: ",
                              ToString(c.durationMinutes[1]), " minutes.")>>
                ELSE <<>>)
            \o (IF Truthy(c.botSpeed)
                THEN <<Clause("Your speaking speed should be: ",
                              c.botSpeed[1], ".")>>
                ELSE <<>>)
    IN [role |-> "system", content |-> JoinWords(system_parts)]

\* lines 26-55
build_system_message_from_config(c) ==
    LET system_parts ==
            <<BaseSentence>>
            \o (IF Truthy(c.scenario)
                THEN <<Clause("Scenario: ", c.scenario[1], ".")>> ELSE <<>>)
            \o (IF Truthy(c.level)
                THEN <<Clause("Learner level: ", c.level[1], ".")>> ELSE <<>>)
            \o (IF Truthy(c.userRole)
                THEN <<Clause("Learner role: ", c.userRole[1], ".")>> ELSE <<>>)
            \o (IF Truthy(c.botTone)
                THEN <<Clause("Your tone: ", c.botTone[1], ".")>> ELSE <<>>)
            \o (IF Truthy(c.goal)
                THEN <<Clause("Conversation goal: ", c.goal[1], ".")>>
                ELSE <<>>)
            \o (IF c.durationMinutes # Nothing
                THEN <<Clause("Target duration: ",
                              ToString(c.durationMinutes[1]), " minutes.")>>
                ELSE <<>>)
            \o (IF Truthy(c.botSpeed)
                THEN <<Clause("Your speaking speed should be: ",
                              c.botSpeed[1], ".")>>
                ELSE <<>>)
    IN [role |-> "system", content |-> JoinWords(system_parts)]

\* lines 58-76
get_tts_voice_from_tone(bot_tone) ==
    CASE bot_tone = "Friendly & Encouraging" -> "en-US-JennyNeural"
      [] bot_tone = "Professional & Formal" -> "en-US-GuyNeural"
      [] bot_tone = "Strict & Correction-focused" -> "en-US-DavisNeural"
      [] bot_tone = "Funny & Casual" -> "en-US-JasonNeural"
      [] bot_tone = "Fast Native Speaker" -> "en-US-SaraNeural"
      [] OTHER -> "en-US-AriaNeural"

\* lines 92-98: speed_to_rate.get(config.botSpeed, 1.0)
speed_to_rate(speed) ==
    CASE speed = "slow" -> Frac(8, 10)
      [] speed = "normal" -> Frac(1, 1)
      [] speed = "fast" -> Frac(12, 10)
      [] OTHER -> Frac(1, 1)

\* lines 79-104, for a configuration that is not None
get_speaking_rate_from_config(c) ==
    IF ~Truthy(c.botSpeed) THEN Frac(1, 1)
    ELSE LET base_rate == speed_to_rate(c.botSpeed[1])
         IN IF c.botTone = Some("Fast Native Speaker")
            THEN PyMax(base_rate, Frac(11, 10))
            ELSE base_rate

\* lines 107-127
get_tts_parameters(cfg) ==
    IF cfg = Nothing
    THEN [voice |-> "en-US-AriaNeural", speaking_rate |-> Frac(1, 1)]
    ELSE [voice |-> IF Truthy(cfg[1].botTone)
                    THEN get_tts_voice_from_tone(cfg[1].botTone[1])
                    ELSE "en-US-AriaNeural",
          speaking_rate |-> get_speaking_rate_from_config(cfg[1])]

\* the learner's turn, the last of the messages
UserMessage == [role |-> "user", content |-> <<"a">>]

NoParameters == [voice |-> "", speaking_rate |-> NoValue]

IdleCfg ==
    /\ config = Nothing
    /\ messages = <<>>
    /\ tts_parameters = NoParameters
    /\ cfg_pc = "idle"

\* a request with or without a configuration
StartCfg ==
    /\ config \in ConfigChoices
    /\ messages = <<>>
    /\ tts_parameters = NoParameters
    /\ cfg_pc = "messages"

\* chat_router.py lines 97-103: the messages for the reply, the system
\* message first when the request has a configuration
BuildMessages ==
    /\ cfg_pc = "messages"
    /\ messages' = IF config # Nothing
                   THEN <<build_system_message_from_config(config[1]),
                          UserMessage>>
                   ELSE <<UserMessage>>
    /\ cfg_pc' = "tts"
    /\ UNCHANGED <<config, tts_parameters>>
    /\ UNCHANGED outsideCfg

\* chat_router.py line 131
GetTtsParameters ==
    /\ cfg_pc = "tts"
    /\ tts_parameters' = get_tts_parameters(config)
    /\ cfg_pc' = "done"
    /\ UNCHANGED <<config, messages>>
    /\ UNCHANGED outsideCfg

NextCfg ==
    \/ BuildMessages
    \/ GetTtsParameters

(***************************************************************************)
(* process_chat_turn (app/routers/chat_router.py) and                      *)
(* calculate_transcript_similarity (app/services/chat_service.py).         *)
(***************************************************************************)
Turns == {"t1", "t2"}

\* Optional[str] = None
None == <<"None">>

\* with one worker the inputs are drawn from the wide sets, with several
\* workers from the narrow ones
Drawn(wide, narrow) == IF workers = 1 THEN wide ELSE narrow

LongA == [i \in 1..10 |-> "a"]

LongAB == [i \in 1..10 |-> IF i = 10 THEN "b" ELSE "a"]

ShortA == [i \in 1..9 |-> "a"]

ShortAB == [i \in 1..9 |-> IF i = 9 THEN "b" ELSE "a"]

\* req.user_transcript
ClientTranscripts ==
    Drawn({None, <<>>, <<" ">>, <<"a">>, <<"A">>, <<"b">>, <<" ", "a">>,
           LongAB, ShortAB},
          {None, <<"b">>})

\* req.audio_base64 is well-formed base64 or not
AudioChoices == Drawn({"wav", "malformed"}, {"wav"})

\* result.text of a RecognizedSpeech result
RecognizerTexts ==
    Drawn({<<>>, <<" ">>, <<"a">>, <<"a", " ">>, <<"a", " ", "B", ".">>,
           LongA, ShortA},
          {<<"a">>})

\* what the recognized callback receives during one assessment session
AssessmentSessions ==
    Drawn({ <<>>,
            <<[words |-> <<[word |-> <<"a">>, error_type |-> "None",
                            accuracy_score |-> 100]>>,
               fluency_score |-> 100, duration |-> 1]>>,
            <<[words |-> <<[word |-> <<"a">>, error_type |-> "None",
                            accuracy_score |-> 100],
                           [word |-> <<"b">>, error_type |-> "Mispronunciation",
                            accuracy_score |-> 40]>>,
               fluency_score |-> 50, duration |-> 2]>>,
            <<[words |-> <<[word |-> <<"a">>, error_type |-> "None",
                            accuracy_score |-> 60]>>,
               fluency_score |-> 100, duration |-> 0]>> },
          { <<[words |-> <<[word |-> <<"a">>, error_type |-> "None",
                            accuracy_score |-> 100]>>,
               fluency_score |-> 100, duration |-> 1]>> })

\* what calculate_intonation_score may return for the audio of a turn
IntonationValues ==
    Drawn(UNION {RoundTenths(PrimaryScoreOf(st)) :
                    st \in {[min_f0 |-> Frac(100, 1), max_f0 |-> Frac(160, 1),
                             std_f0 |-> Frac(30, 1)],
                            [min_f0 |-> Frac(75, 1), max_f0 |-> Frac(100, 1),
                             std_f0 |-> Frac(10, 1)]}}
          \cup RoundTenths(FallbackScoreOf(<<>>)),
          RoundTenths(FallbackScoreOf(<<>>)))

\* the first k models raise, the next one answers text
Behaviour(k, text) ==
    [i \in 1..Len(GEMINI_MODELS) |-> IF i = k + 1 THEN Answers(text) ELSE Raises]

AllRaise == [i \in 1..Len(GEMINI_MODELS) |-> Raises]

\* what the models do when grammar_feedback_from_gemini asks them
GrammarBehaviours ==
    Drawn({ AllRaise,
            Behaviour(2, "{grammar_score: 85, overall_feedback: Good, mistakes: [m1, malformed], user_translation: vi}"),
            Behaviour(0, "{}"),
            Behaviour(0, "Sorry, I cannot help.") },
          { Behaviour(0, "{grammar_score: 85, overall_feedback: Good, mistakes: [m1, malformed], user_translation: vi}") })

\* what the models do when generate_gemini_response asks them
ReplyBehaviours ==
    Drawn({ AllRaise,
            Behaviour(0, "{bot_text: Hello, bot_translation: Xin chao}"),
            Behaviour(1, "{bot_text: Hello}") },
          { Behaviour(0, "{bot_text: Hello, bot_translation: Xin chao}") })

\* tts_to_wav_base64 returns audio or raises
SynthesisResults == Drawn({"wav", "raise"}, {"wav"})

\* variant: the two texts compared as they are
calculate_transcript_similarity_CaseSensitive(text1, text2) == ratio(text1, text2)

\* lines 12-23
calculate_transcript_similarity(text1, text2) == ratio(lower(text1), lower(text2))

MaxTextLen == 3

\* the transcripts the function is called with
TranscriptChoices == SeqsUpTo({"a", "A", "b"}, MaxTextLen)

IdleSim ==
    /\ sim_text1 = <<>>
    /\ sim_text2 = <<>>
    /\ similarity = NoValue
    /\ sim_pc = "idle"

StartSim ==
    /\ sim_text1 \in TranscriptChoices
    /\ sim_text2 \in TranscriptChoices
    /\ similarity = NoValue
    /\ sim_pc = "called"

\* chat_service.py line 23
Compare ==
    /\ sim_pc = "called"
    /\ similarity' = calculate_transcript_similarity(sim_text1, sim_text2)
    /\ sim_pc' = "returned"
    /\ UNCHANGED <<sim_text1, sim_text2>>
    /\ UNCHANGED outsideSim

NextSim == Compare

\* variant: sim <= 0.9
LowMatch_AtMost(sim) == FracLe(sim, Frac(9, 10))

\* line 44: sim < 0.9
LowMatch(sim) == FracLt(sim, Frac(9, 10))

\* x or y for strings
Or(x, y) == IF x # <<>> THEN x ELSE y

NoFrame ==
    [pc |-> "idle", branch |-> "none", calls |-> {}, read_from |-> {},
     stt_text |-> None,
     azure_transcript |-> <<>>, user_txt |-> <<>>, chosen_transcript |-> <<>>,
     is_unintelligible |-> FALSE,
     pa_reference_text |-> None, pa_reference_words |-> <<>>,
     grammar_transcript |-> None, reply_messages |-> <<>>,
     accuracy |-> NoValue, completeness |-> NoValue, fluency |-> NoValue,
     intonation_score |-> NoValue,
     grammar_loop |-> CandidateLoop(AllRaise, Len(GEMINI_MODELS) + 1, FALSE),
     grammar |-> GrammarResult(NoValue, "", <<>>, ""),
     reply |-> ReplyResult("", ""),
     feedback |-> [pronunciation_score |-> NoValue, fluency_score |-> NoValue,
                   intonation_score |-> NoValue, grammar_score |-> NoValue,
                   total_score |-> NoValue, improvement_tip |-> "",
                   mistakes |-> <<>>],
     stt_reason |-> "none", tts_raised |-> FALSE,
     bot_audio_base64 |-> "None"]

NoRequest == [audio_base64 |-> "wav", user_transcript |-> None]

NoResponse ==
    [feedback |-> NoFrame.feedback, bot_text |-> "", bot_translation |-> "",
     user_transcript |-> <<>>, user_translation |-> "None",
     is_unintelligible |-> FALSE, bot_audio_base64 |-> "None"]

\* variant: is_unintelligible left to its default in the schema (False)
ShortCircuitResponse_DefaultFlag(azure_transcript, user_txt) ==
    [feedback |-> [pronunciation_score |-> Frac(0, 1),
                   fluency_score |-> Frac(0, 1),
                   intonation_score |-> Frac(0, 1),
                   grammar_score |-> Frac(0, 1),
                   total_score |-> Frac(0, 1),
                   improvement_tip |-> "I couldn't clearly understand this sentence. Please speak a bit slower and more clearly.",
                   mistakes |-> <<>>],
     bot_text |-> "I had trouble understanding you. Could you repeat that more slowly?",
     bot_translation |-> "Toi hoi kho nghe ro. Ban co the noi lai cham hon khong?",
     user_transcript |-> Or(azure_transcript, user_txt),
     user_translation |-> "None",
     is_unintelligible |-> FALSE,
     bot_audio_base64 |-> "None"]

\* lines 52-69
ShortCircuitResponse(azure_transcript, user_txt) ==
    [feedback |-> [pronunciation_score |-> Frac(0, 1),
                   fluency_score |-> Frac(0, 1),
                   intonation_score |-> Frac(0, 1),
                   grammar_score |-> Frac(0, 1),
                   total_score |-> Frac(0, 1),
                   improvement_tip |-> "I couldn't clearly understand this sentence. Please speak a bit slower and more clearly.",
                   mistakes |-> <<>>],
     bot_text |-> "I had trouble understanding you. Could you repeat that more slowly?",
     bot_translation |-> "Toi hoi kho nghe ro. Ban co the noi lai cham hon khong?",
     user_transcript |-> Or(azure_transcript, user_txt),
     user_translation |-> "None",
     is_unintelligible |-> TRUE,
     bot_audio_base64 |-> "None"]

\* the turns that occupy a worker
InFlight == {t \in Turns : frame[t].pc # "idle"}

IdleTurns ==
    /\ workers = 0
    /\ file = "none"
    /\ req = [t \in Turns |-> NoRequest]
    /\ frame = [t \in Turns |-> NoFrame]
    /\ response = [t \in Turns |-> NoResponse]

StartTurns(n) ==
    /\ workers = n
    /\ file = "none"
    /\ req = [t \in Turns |-> NoRequest]
    /\ frame = [t \in Turns |-> NoFrame]
    /\ response = [t \in Turns |-> NoResponse]

\* line 32: a request reaches a free worker
Arrive(t) ==
    /\ frame[t].pc = "idle"
    /\ Cardinality(InFlight) < workers
    /\ \E audio \in AudioChoices, txt \in ClientTranscripts :
          req' = [req EXCEPT ![t] = [audio_base64 |-> audio,
                                     user_transcript |-> txt]]
    /\ frame' = [frame EXCEPT ![t].pc = "decode"]
    /\ UNCHANGED <<workers, file, response>>
    /\ UNCHANGED outsideTurn

\* line 34, decode_base64_to_wav (azure_speech.py lines 34-41): b64decode
\* raises on a malformed payload, otherwise the bytes replace the content of
\* tmp_audio/speaking_turn.wav
Decode(t) ==
    /\ frame[t].pc = "decode"
    /\ IF req[t].audio_base64 = "malformed"
       THEN /\ frame' = [frame EXCEPT ![t].pc = "error",
                                      ![t].calls = @ \cup {"decode"}]
            /\ UNCHANGED file
       ELSE /\ frame' = [frame EXCEPT ![t].pc = "stt",
                                      ![t].calls = @ \cup {"decode"}]
            /\ file' = t
    /\ UNCHANGED <<workers, req, response>>
    /\ UNCHANGED outsideTurn

\* result.reason of recognize_once_async().get()
RecognitionReasons == Drawn({"RecognizedSpeech", "NoMatch", "Canceled"},
                            {"RecognizedSpeech"})

\* variant: a result that is not RecognizedSpeech returned as an empty text
stt_from_audio_file_Empty(reason, text) ==
    [raised |-> FALSE,
     text |-> IF reason = "RecognizedSpeech" THEN text ELSE <<>>]

\* azure_speech.py lines 27-31: the text of a RecognizedSpeech result,
\* RuntimeError for any other result
stt_from_audio_file(reason, text) ==
    IF reason = "RecognizedSpeech"
    THEN [raised |-> FALSE, text |-> text]
    ELSE [raised |-> TRUE, text |-> <<>>]

\* line 35: the recognizer reads the file; the text is stripped, an
\* exception of stt_from_audio_file leaves the handler
Transcribe(t) ==
    /\ frame[t].pc = "stt"
    /\ \E reason \in RecognitionReasons, text \in RecognizerTexts :
          LET stt == stt_from_audio_file(reason, text)
          IN /\ reason # "RecognizedSpeech" => text = <<>>
             /\ frame' = [frame EXCEPT
                            ![t].pc = IF stt.raised THEN "error" ELSE "gate",
                            ![t].calls = @ \cup {"stt"},
                            ![t].read_from = @ \cup {file},
                            ![t].stt_reason = reason,
                            ![t].stt_text = IF stt.raised THEN @ ELSE stt.text,
                            ![t].azure_transcript =
                                IF stt.raised THEN @ ELSE strip(stt.text)]
    /\ UNCHANGED <<workers, file, req, response>>
    /\ UNCHANGED outsideTurn

\* variant: the client's transcript chosen when it matches well enough
ChosenTranscript_Client(azure_transcript, user_txt) ==
    IF user_txt # <<>>
       /\ ~LowMatch(calculate_transcript_similarity(user_txt, azure_transcript))
    THEN user_txt
    ELSE azure_transcript

\* lines 39-48: chosen_transcript, assigned at line 39 and again at line 48
ChosenTranscript(azure_transcript, user_txt) ==
    IF user_txt # <<>>
       /\ ~LowMatch(calculate_transcript_similarity(user_txt, azure_transcript))
    THEN azure_transcript
    ELSE azure_transcript

\* lines 38-48
Gate(t) ==
    /\ frame[t].pc = "gate"
    /\ LET user_txt == strip(IF req[t].user_transcript = None THEN <<>>
                             ELSE req[t].user_transcript)
           sim == calculate_transcript_similarity(user_txt,
                                                  frame[t].azure_transcript)
       IN frame' = [frame EXCEPT
                      ![t].pc = "branch",
                      ![t].user_txt = user_txt,
                      ![t].chosen_transcript =
                          ChosenTranscript(frame[t].azure_transcript, user_txt),
                      ![t].is_unintelligible = user_txt # <<>> /\ LowMatch(sim)]
    /\ UNCHANGED <<workers, file, req, response>>
    /\ UNCHANGED outsideTurn

\* lines 51-69: the quick feedback is returned
ShortCircuit(t) ==
    /\ frame[t].pc = "branch"
    /\ frame[t].is_unintelligible \/ frame[t].chosen_transcript = <<>>
    /\ frame' = [frame EXCEPT ![t].pc = "done", ![t].branch = "short_circuit"]
    /\ response' = [response EXCEPT ![t] =
                       ShortCircuitResponse(frame[t].azure_transcript,
                                            frame[t].user_txt)]
    /\ UNCHANGED <<workers, file, req>>
    /\ UNCHANGED outsideTurn

\* lines 51, 72-78: the assessment session reads the file
Assess(t) ==
    /\ frame[t].pc = "branch"
    /\ ~(frame[t].is_unintelligible \/ frame[t].chosen_transcript = <<>>)
    /\ \E segments \in AssessmentSessions :
          LET r == pronunciation_assessment_from_file(
                       frame[t].chosen_transcript, segments)
          IN frame' = [frame EXCEPT
                         ![t].pc = IF r.raised THEN "error" ELSE "intonation",
                         ![t].branch = "full",
                         ![t].calls = @ \cup {"pa"},
                         ![t].pa_reference_text = frame[t].chosen_transcript,
                         ![t].pa_reference_words =
                             ReferenceWordsOf(frame[t].chosen_transcript),
                         ![t].read_from = @ \cup {file},
                         ![t].accuracy = IF r.raised THEN @ ELSE r.accuracy,
                         ![t].completeness =
                             IF r.raised THEN @ ELSE r.completeness,
                         ![t].fluency = IF r.raised THEN @ ELSE r.fluency]
    /\ UNCHANGED <<workers, file, req, response>>
    /\ UNCHANGED outsideTurn

\* line 81
Intonation(t) ==
    /\ frame[t].pc = "intonation"
    /\ \E v \in IntonationValues :
          frame' = [frame EXCEPT ![t].pc = "grammar",
                                 ![t].calls = @ \cup {"intonation"},
                                 ![t].read_from = @ \cup {file},
                                 ![t].intonation_score = v]
    /\ UNCHANGED <<workers, file, req, response>>
    /\ UNCHANGED outsideTurn

\* lines 85-94
Grammar(t) ==
    /\ frame[t].pc = "grammar"
    /\ \E behaviour \in GrammarBehaviours :
          frame' = [frame EXCEPT
                      ![t].pc = "reply",
                      ![t].calls = @ \cup {"grammar"},
                      ![t].grammar_transcript = frame[t].chosen_transcript,
                      ![t].grammar_loop = CandidateLoop(behaviour, 1, FALSE),
                      ![t].grammar =
                          grammar_feedback_from_gemini(
                              frame[t].chosen_transcript, behaviour)]
    /\ UNCHANGED <<workers, file, req, response>>
    /\ UNCHANGED outsideTurn

\* lines 97-105
Reply(t) ==
    /\ frame[t].pc = "reply"
    /\ \E behaviour \in ReplyBehaviours :
          frame' = [frame EXCEPT
                      ![t].pc = "assemble",
                      ![t].calls = @ \cup {"reply"},
                      ![t].reply_messages =
                          <<[role |-> "user",
                             content |-> frame[t].chosen_transcript]>>,
                      ![t].reply = generate_gemini_response(behaviour)]
    /\ UNCHANGED <<workers, file, req, response>>
    /\ UNCHANGED outsideTurn

\* line 115: (a + b + c + d) / 4.0
MeanOfFour(a, b, c, d) == FracScale(FracAdd(FracAdd(a, b), FracAdd(c, d)), 1, 4)

\* variant: the completeness averaged in as a fifth score
RoundedScores_FiveWay(locals) ==
    UNION {{[pronunciation_score |-> sc[1], fluency_score |-> sc[2],
             grammar_score |-> sc[3], intonation_score |-> sc[4],
             total_score |-> total] :
               total \in RoundTenths(
                   FracScale(FracAdd(FracScale(MeanOfFour(sc[1], sc[2], sc[3],
                                                          sc[4]), 4, 1),
                                     locals.completeness), 1, 5))} :
           sc \in RoundTenths(locals.accuracy)
                   \X RoundTenths(locals.fluency)
                   \X RoundTenths(locals.grammar.grammar_score)
                   \X RoundTenths(locals.intonation_score)}

\* lines 109-117: the four scores rounded to one decimal and the rounded
\* mean of the four rounded scores
RoundedScores(locals) ==
    UNION {{[pronunciation_score |-> sc[1], fluency_score |-> sc[2],
             grammar_score |-> sc[3], intonation_score |-> sc[4],
             total_score |-> total] :
               total \in RoundTenths(MeanOfFour(sc[1], sc[2], sc[3], sc[4]))} :
           sc \in RoundTenths(locals.accuracy)
                   \X RoundTenths(locals.fluency)
                   \X RoundTenths(locals.grammar.grammar_score)
                   \X RoundTenths(locals.intonation_score)}

\* lines 109-127
Assemble(t) ==
    /\ frame[t].pc = "assemble"
    /\ \E scores \in RoundedScores(frame[t]) :
          frame' = [frame EXCEPT
              ![t].pc = "tts",
              ![t].feedback =
                  [pronunciation_score |-> scores.pronunciation_score,
                   fluency_score |-> scores.fluency_score,
                   intonation_score |-> scores.intonation_score,
                   grammar_score |-> scores.grammar_score,
                   total_score |-> scores.total_score,
                   improvement_tip |->
                       IF frame[t].grammar.grammar_tip # ""
                       THEN frame[t].grammar.grammar_tip
                       ELSE frame[t].reply.bot_text,
                   mistakes |-> frame[t].grammar.mistakes]]
    /\ UNCHANGED <<workers, file, req, response>>
    /\ UNCHANGED outsideTurn

\* variant: the call of tts_to_wav_base64 outside any try
TryTts_Uncaught(outcome) ==
    [raised |-> outcome = "raise", bot_audio_base64 |-> outcome]

\* lines 130-137: get_tts_parameters and tts_to_wav_base64 inside the try;
\* on an exception bot_audio_base64 = None
TryTts(outcome) ==
    [raised |-> FALSE,
     bot_audio_base64 |-> IF outcome = "raise" THEN "None" ELSE outcome]

\* lines 130-149: synthesis, whose exception is caught, then the response
Synthesize(t) ==
    /\ frame[t].pc = "tts"
    /\ \E outcome \in SynthesisResults :
          LET bot_audio_base64 == TryTts(outcome).bot_audio_base64
          IN /\ frame' = [frame EXCEPT
                            ![t].pc = IF TryTts(outcome).raised THEN "error"
                                      ELSE "done",
                            ![t].calls = @ \cup {"tts"},
                            ![t].tts_raised = (outcome = "raise"),
                            ![t].bot_audio_base64 = bot_audio_base64]
             /\ response' = [response EXCEPT ![t] =
                    IF TryTts(outcome).raised THEN NoResponse ELSE
                    [feedback |-> frame[t].feedback,
                     bot_text |-> frame[t].reply.bot_text,
                     bot_translation |-> frame[t].reply.bot_translation,
                     user_transcript |-> frame[t].chosen_transcript,
                     user_translation |-> frame[t].grammar.user_translation,
                     is_unintelligible |-> FALSE,
                     bot_audio_base64 |-> bot_audio_base64]]
    /\ UNCHANGED <<workers, file, req>>
    /\ UNCHANGED outsideTurn

\* the caller has its answer (the response or the error); the worker is free
Finish(t) ==
    /\ frame[t].pc \in {"done", "error"}
    /\ frame' = [frame EXCEPT ![t] = NoFrame]
    /\ req' = [req EXCEPT ![t] = NoRequest]
    /\ response' = [response EXCEPT ![t] = NoResponse]
    /\ UNCHANGED <<workers, file>>
    /\ UNCHANGED outsideTurn

NextTurn ==
    \/ \E t \in Turns : Arrive(t)
    \/ \E t \in Turns : Decode(t)
    \/ \E t \in Turns : Transcribe(t)
    \/ \E t \in Turns : Gate(t)
    \/ \E t \in Turns : ShortCircuit(t)
    \/ \E t \in Turns : Assess(t)
    \/ \E t \in Turns : Intonation(t)
    \/ \E t \in Turns : Grammar(t)
    \/ \E t \in Turns : Reply(t)
    \/ \E t \in Turns : Assemble(t)
    \/ \E t \in Turns : Synthesize(t)
    \/ \E t \in Turns : Finish(t)

\* one server process: a turn is handled from start to end before the next
Init == StartTurns(1) /\ IdlePA /\ IdleInt /\ IdleGem /\ IdleCfg /\ IdleSim

Spec == Init /\ [][NextTurn]_vars

\* two server processes started in the same working directory
InitConc == StartTurns(2) /\ IdlePA /\ IdleInt /\ IdleGem /\ IdleCfg /\ IdleSim

SpecConc == InitConc /\ [][NextTurn]_vars

\* one call of pronunciation_assessment_from_file, callback by callback
InitPA == StartPA /\ IdleInt /\ IdleTurns /\ IdleGem /\ IdleCfg /\ IdleSim

SpecPA == InitPA /\ [][NextPA]_vars

\* one call of calculate_intonation_score
InitInt == StartInt /\ IdlePA /\ IdleTurns /\ IdleGem /\ IdleCfg /\ IdleSim

SpecInt == InitInt /\ [][NextInt]_vars

\* one call of grammar_feedback_from_gemini or generate_gemini_response
InitGem == StartGem /\ IdlePA /\ IdleInt /\ IdleTurns /\ IdleCfg /\ IdleSim

SpecGem == InitGem /\ [][NextGem]_vars

\* the configuration of one request, through the two places that read it
InitCfg == StartCfg /\ IdlePA /\ IdleInt /\ IdleTurns /\ IdleGem /\ IdleSim

SpecCfg == InitCfg /\ [][NextCfg]_vars

\* one call of calculate_transcript_similarity
InitSim ==
    StartSim /\ IdlePA /\ IdleInt /\ IdleTurns /\ IdleGem /\ IdleCfg

SpecSim == InitSim /\ [][NextSim]_vars

(***************************************************************************)
(* Properties of process_chat_turn (Spec, SpecConc).                       *)
(***************************************************************************)
HeavyCalls == {"pa", "intonation", "grammar", "reply", "tts"}

\* C1: a turn that took the short-circuit branch has invoked none of
\* pronunciation assessment, intonation scoring, grammar feedback,
\* conversational reply and synthesis, and its result has the five scores
\* 0, no mistakes, no synthesized audio and is_unintelligible = true.
C1_ShortCircuitResult ==
    \A t \in Turns :
        frame[t].branch = "short_circuit" =>
            /\ frame[t].calls \cap HeavyCalls = {}
            /\ frame[t].pc = "done"
            /\ response[t].feedback.pronunciation_score = Frac(0, 1)
            /\ response[t].feedback.fluency_score = Frac(0, 1)
            /\ response[t].feedback.intonation_score = Frac(0, 1)
            /\ response[t].feedback.grammar_score = Frac(0, 1)
            /\ response[t].feedback.total_score = Frac(0, 1)
            /\ response[t].feedback.mistakes = <<>>
            /\ response[t].bot_audio_base64 = "None"
            /\ response[t].is_unintelligible = TRUE

C1_Witness ==
    \E t \in Turns :
        /\ frame[t].branch = "short_circuit"
        /\ frame[t].is_unintelligible
        /\ frame[t].azure_transcript # <<>>

\* the client transcript as sent, and after strip()
Supplied(t) == req[t].user_transcript \notin {None, <<>>}

Stripped(t) ==
    IF req[t].user_transcript = None THEN <<>>
    ELSE strip(req[t].user_transcript)

Below09(a, b) == FracLt(ratio(lower(a), lower(b)), Frac(9, 10))

\* C2 as stated: after a successful transcription the short-circuit branch
\* is taken exactly when (a non-empty client transcript was supplied and its
\* similarity to the recognizer transcript is below 0.9) or the chosen
\* transcript is empty.
C2_GateAsStated ==
    \A t \in Turns :
        frame[t].branch # "none" =>
            (frame[t].branch = "short_circuit"
                <=> \/ /\ Supplied(t)
                       /\ Below09(req[t].user_transcript,
                                  frame[t].azure_transcript)
                    \/ frame[t].chosen_transcript = <<>>)

\* C2 amended: the branch is taken exactly when (the client transcript is
\* non-empty after strip() and the similarity of the stripped transcript to
\* the recognizer transcript is below 0.9) or the chosen transcript is
\* empty; without a client transcript and with a non-empty recognizer
\* transcript the full assessment runs.
C2_Gate ==
    \A t \in Turns :
        frame[t].branch # "none" =>
            /\ frame[t].branch = "short_circuit"
                  <=> \/ /\ Stripped(t) # <<>>
                         /\ Below09(Stripped(t), frame[t].azure_transcript)
                      \/ frame[t].chosen_transcript = <<>>
            /\ (req[t].user_transcript = None
                  /\ frame[t].azure_transcript # <<>>)
               => frame[t].branch = "full"

C2_Witness ==
    \E t \in Turns :
        /\ frame[t].branch = "full"
        /\ Stripped(t) # <<>>
        /\ lower(Stripped(t)) # lower(frame[t].azure_transcript)

\* C3: once the gate has passed, no error of a later stage reaches the
\* caller.
C3_NoErrorAfterGate ==
    \A t \in Turns : frame[t].branch = "full" => frame[t].pc # "error"

\* C4: transcription, assessment and intonation scoring of a turn read the
\* audio decoded from that turn's request, and no other turn overwrites it
\* while the turn still has to read it.
C4_TurnLocalAudio ==
    \A t \in Turns :
        /\ frame[t].read_from \subseteq {t}
        /\ frame[t].pc \in {"stt", "gate", "branch", "intonation"} => file = t

(***************************************************************************)
(* Properties of the alignment and of the score aggregation (SpecPA).      *)
(***************************************************************************)
Aligned == pa_pc \notin {"idle", "listening"}

AccuracyStepTaken == pa_pc \notin {"idle", "listening", "aligned"}

FluencyStepTaken == pa_pc \notin {"idle", "listening", "aligned", "accuracy"}

\* 1-based positions of the recognized / reference words inside an `equal`
\* opcode range
MatchedRecognized ==
    {j \in DOMAIN recognized_words :
        \E n \in DOMAIN opcodes :
            /\ opcodes[n].tag = "equal"
            /\ opcodes[n].j1 < j /\ j <= opcodes[n].j2}

MatchedReference ==
    {i \in DOMAIN reference_words :
        \E n \in DOMAIN opcodes :
            /\ opcodes[n].tag = "equal"
            /\ opcodes[n].i1 < i /\ i <= opcodes[n].i2}

\* an Omission word is a word constructed for a reference word; a matched
\* word is a recognized word of an `equal` range; an Insertion word is any
\* other recognized word
NumOmission == Cardinality({p \in DOMAIN final_words : final_words[p].id = 0})

NumMatched ==
    Cardinality({p \in DOMAIN final_words :
                    final_words[p].id \in MatchedRecognized})

NumInsertion ==
    Cardinality({p \in DOMAIN final_words :
                    /\ final_words[p].id # 0
                    /\ final_words[p].id \notin MatchedRecognized})

\* C5: once final_words is built, Omission words + matched words is the
\* number of reference words and Insertion words + matched words is the
\* number of recognized words, whatever error types the recognizer reported.
C5_AlignmentCounts ==
    Aligned =>
        /\ NumOmission + NumMatched = Len(reference_words)
        /\ NumInsertion + NumMatched = Len(recognized_words)

C5_Witness ==
    /\ pa_pc = "aligned"
    /\ NumOmission > 0 /\ NumMatched > 0 /\ NumInsertion > 0
    /\ \E j \in DOMAIN recognized_words :
          /\ j \notin MatchedRecognized
          /\ recognized_words[j].error_type = "Mispronunciation"

\* the index of the opcode that covers recognized word j / reference word i
OpOfRecognized(j) ==
    CHOOSE n \in DOMAIN opcodes :
        opcodes[n].j1 < j /\ j <= opcodes[n].j2

OpOfReference(i) ==
    CHOOSE n \in DOMAIN opcodes :
        opcodes[n].i1 < i /\ i <= opcodes[n].i2

\* the reference positions outside every `equal` range, ascending
RECURSIVE Ascending(_)
Ascending(S) ==
    IF S = {} THEN <<>> ELSE <<SetMin(S)>> \o Ascending(S \ {SetMin(S)})

UnmatchedReference == Ascending(DOMAIN reference_words \ MatchedReference)

FromRecognizer == SelectSeq(final_words, LAMBDA w : w.id # 0)

Synthesized == SelectSeq(final_words, LAMBDA w : w.id = 0)

\* the opcode a position of final_words belongs to: a recognized word by its
\* place in the stream, the k-th synthesized word by the k-th unmatched
\* reference position
OpOfFinal(p) ==
    IF final_words[p].id # 0 THEN OpOfRecognized(final_words[p].id)
    ELSE OpOfReference(
            UnmatchedReference[
                Cardinality({q \in 1..p : final_words[q].id = 0})])

\* C6: in final_words every recognized word occurs once and in stream order,
\* every reference word outside an `equal` range occurs once as an Omission
\* word, every reference word inside one is stood for by its recognized
\* word, and the words follow the opcode order, recognized words before
\* omitted ones inside a `replace` range.
C6_AlignmentMerge ==
    Aligned =>
        /\ FromRecognizer = recognized_words
        /\ Synthesized =
              [k \in DOMAIN UnmatchedReference |->
                  [id |-> 0, word |-> reference_words[UnmatchedReference[k]],
                   error_type |-> "Omission", accuracy_score |-> 0]]
        /\ \A j \in MatchedRecognized :
              LET op == opcodes[OpOfRecognized(j)]
              IN lower(recognized_words[j].word)
                    = reference_words[op.i1 + (j - op.j1)]
        /\ \A p, q \in DOMAIN final_words :
              p < q =>
                 /\ OpOfFinal(p) <= OpOfFinal(q)
                 /\ (OpOfFinal(p) = OpOfFinal(q) /\ final_words[p].id = 0
                        => final_words[q].id = 0)

C6_Witness ==
    /\ pa_pc = "aligned"
    /\ \E n \in DOMAIN opcodes : opcodes[n].tag = "replace"
    /\ \E n \in DOMAIN opcodes : opcodes[n].tag = "equal"
    /\ Len(final_words) >= 4

\* the recognized stream says exactly the reference words, without errors
PerfectMatch ==
    /\ [n \in DOMAIN recognized_words |-> lower(recognized_words[n].word)]
          = reference_words
    /\ \A n \in DOMAIN recognized_words :
          recognized_words[n].error_type = "None"

\* C7: a recognized stream whose lower-cased texts equal the reference words
\* and whose error types are all None is aligned to itself, with no
\* Insertion and no Omission; if every accuracy is 100 the accuracy score
\* is 100.
C7_PerfectMatch ==
    [][ /\ (pa_pc = "listening" /\ pa_pc' = "aligned"
              /\ [n \in DOMAIN recognized_words |->
                     lower(recognized_words[n].word)] = reference_words'
              /\ \A n \in DOMAIN recognized_words :
                     recognized_words[n].error_type = "None")
           => /\ final_words' = recognized_words
              /\ recognized_words' = recognized_words
              /\ NumInsertion' = 0 /\ NumOmission' = 0
        /\ (pa_pc = "aligned" /\ pa_pc' # "aligned" /\ PerfectMatch
              /\ \A n \in DOMAIN recognized_words :
                     recognized_words[n].accuracy_score = 100)
           => /\ pa_pc' = "accuracy"
              /\ FracEq(accuracy_score', Frac(100, 1))
      ]_vars

C7_Witness ==
    /\ pa_pc = "accuracy" /\ PerfectMatch
    /\ Len(recognized_words) >= 2
    /\ \E n \in DOMAIN recognized_words :
          recognized_words[n].word # lower(recognized_words[n].word)
    /\ \A n \in DOMAIN recognized_words :
          recognized_words[n].accuracy_score = 100

C9_CompletenessRange ==
    pa_pc = "returned" =>
        /\ completeness_score[2] # 0
        /\ FracLe(Frac(0, 1), completeness_score)
        /\ FracLe(completeness_score, Frac(100, 1))

C9_Witness ==
    /\ pa_pc = "returned"
    /\ Len(recognized_words) > Len(reference_words)
    /\ FracEq(completeness_score, Frac(100, 1))

\* what the three lists of the callback hold when every event delivered so
\* far has been taken in whole
WordsDelivered ==
    WithId(Flatten([n \in DOMAIN delivered |-> delivered[n].words]), 0)

SessionEnded == pa_pc = "listening" /\ done

\* C21: once the session has stopped or been canceled, the recognized word
\* list is the concatenation of the delivered segments' words in arrival
\* order, the fluency-score list and the duration list both have one entry
\* per delivered segment, and the i-th score and the i-th duration are those
\* of the i-th segment, also when a callback raised part-way through.
C21_SegmentListsPaired ==
    SessionEnded =>
        /\ recognized_words = WordsDelivered
        /\ Len(fluency_scores) = Len(delivered)
        /\ Len(durations) = Len(delivered)
        /\ \A n \in DOMAIN delivered :
              /\ fluency_scores[n] = delivered[n].fluency_score
              /\ durations[n] = delivered[n].duration

\* the same when no callback raised: the lists are paired segment by segment
C21_PairedWhenNoneRaises ==
    /\ SessionEnded
    /\ \A n \in DOMAIN delivered : ~delivered[n].raised
    => /\ recognized_words = WordsDelivered
       /\ Len(fluency_scores) = Len(delivered)
       /\ Len(durations) = Len(delivered)
       /\ \A n \in DOMAIN delivered :
             /\ fluency_scores[n] = delivered[n].fluency_score
             /\ durations[n] = delivered[n].duration

\* a first segment whose callback raised after line 89, then a second one taken
\* in whole: the second segment's duration sits beside the first one's score
C21_Mispaired ==
    /\ SessionEnded
    /\ Len(delivered) = MaxSegments
    /\ delivered[1].raised /\ delivered[1].fluency_score = 50
    /\ ~delivered[Len(delivered)].raised
    /\ delivered[Len(delivered)].fluency_score = 100
    /\ delivered[Len(delivered)].duration > 0
    /\ Len(durations) < Len(fluency_scores)
    /\ durations[1] = delivered[Len(delivered)].duration

(***************************************************************************)
(* Properties of the intonation score (SpecInt).                           *)
(***************************************************************************)
\* C10: calculate_intonation_score returns a number in [0, 100]; when the
\* primary extraction raised the value is the fallback's, which is 0 when
\* the fallback raised too or found no non-zero pitch sample.
C10_IntonationScore ==
    int_pc = "returned" =>
        /\ ~IsNaN(intonation_result)
        /\ FracLe(Frac(0, 1), intonation_result)
        /\ FracLe(intonation_result, Frac(100, 1))
        /\ fallback_error => primary_error /\ intonation_result = Frac(0, 1)
        /\ (primary_error /\ ~fallback_error
              /\ \A n \in DOMAIN values : values[n] = 0)
           => FracEq(intonation_result, Frac(0, 1))
        /\ ~primary_error => values = <<>>

C10_Witness ==
    /\ int_pc = "returned"
    /\ primary_error /\ ~fallback_error
    /\ \E n \in DOMAIN values : values[n] = 400
    /\ FracEq(intonation_result, Frac(100, 1))

\* lines 59-63: the two percentages of the native reference
pitch_range_percent(st) ==
    FracScale(FracSub(st.max_f0, st.min_f0), 100, native_range)

pitch_std_percent(st) == FracScale(st.std_f0, 100, native_std)

\* the sub-score as the specification states it, for a percent >= 0
StatedSubScore(percent, idealMin, idealMax) ==
    IF FracLt(percent, Frac(idealMin, 1))
    THEN FracScale(percent, 100, idealMin)
    ELSE IF FracLe(percent, Frac(idealMax, 1))
    THEN Frac(100, 1)
    ELSE LET half == FracScale(FracSub(percent, Frac(idealMax, 1)), 1, 2)
         IN IF FracLt(half, Frac(50, 1))
            THEN FracSub(Frac(100, 1), half)
            ELSE Frac(50, 1)

PrimaryReturned == int_pc = "returned" /\ ~primary_error

FiniteStats ==
    ~IsNaN(pitch_stats.min_f0) /\ ~IsNaN(pitch_stats.max_f0)
        /\ ~IsNaN(pitch_stats.std_f0)

\* C11: for a non-negative percent the sub-score is 100 inside the band,
\* 100*percent/idealMin below it and 100 - min(50, (percent - idealMax)/2)
\* above it, hence at least 50 above the band; the primary score is
\* 0.7 * range sub-score (band [80,120]) + 0.3 * std sub-score (band
\* [70,130]) and lies in [0,100], as does the value returned, which is that
\* score rounded to one decimal.
C11_SubScoreAndPrimary ==
    PrimaryReturned =>
        /\ FracLe(Frac(0, 1), intonation_result)
        /\ FracLe(intonation_result, Frac(100, 1))
        /\ FiniteStats =>
            LET rp == pitch_range_percent(pitch_stats)
                sp == pitch_std_percent(pitch_stats)
                rs == StatedSubScore(rp, 80, 120)
                ss == StatedSubScore(sp, 70, 130)
            IN /\ FracEq(PrimaryScoreOf(pitch_stats),
                         FracAdd(FracScale(rs, 7, 10), FracScale(ss, 3, 10)))
               /\ FracEq(_score_from_percent(rp, 80, 120), rs)
               /\ FracEq(_score_from_percent(sp, 70, 130), ss)
               /\ FracLt(Frac(120, 1), rp) => FracLe(Frac(50, 1), rs)
               /\ FracLt(Frac(130, 1), sp) => FracLe(Frac(50, 1), ss)
               /\ intonation_result \in
                     RoundTenths(FracAdd(FracScale(rs, 7, 10),
                                         FracScale(ss, 3, 10)))

\* a range far above its band (penalty capped at 50) with a std below its band
C11_Witness ==
    /\ PrimaryReturned
    /\ FiniteStats
    /\ FracLt(Frac(220, 1), pitch_range_percent(pitch_stats))
    /\ FracLt(pitch_std_percent(pitch_stats), Frac(70, 1))
    /\ FracLt(Frac(0, 1), pitch_std_percent(pitch_stats))
    /\ FracLt(intonation_result, Frac(50, 1))

(***************************************************************************)
(* Properties of the two Gemini functions (SpecGem).                       *)
(***************************************************************************)
AllCandidatesRaised ==
    /\ Len(attempted) = Len(GEMINI_MODELS)
    /\ \A i \in DOMAIN attempted : attempted[i].raised

SomeCandidateAnswered == \E i \in DOMAIN attempted : ~attempted[i].raised

GemReturned(fn) == gem_pc = "returned" /\ gem_fn = fn

\* C12: in both functions the candidates are asked in the order of
\* GEMINI_MODELS, none is asked after the first that answers without
\* raising, and the all-models-failed default is returned only when every
\* candidate of the list raised.
C12_CandidateOrder ==
    /\ \A i \in DOMAIN attempted :
          /\ i <= Len(GEMINI_MODELS)
          /\ attempted[i].model_name = GEMINI_MODELS[i]
          /\ i < Len(attempted) => attempted[i].raised
    /\ (GemReturned("grammar") /\ SomeCandidateAnswered)
          => gem_result.grammar_tip # ModelErrorFeedback.grammar_tip

ReplyUnusable ==
    \/ AllCandidatesRaised
    \/ json_loads(Cleaned(raw_text)).raises
    \/ ~json_loads(Cleaned(raw_text)).is_dict

\* C14: generate_gemini_response never raises and always returns a
\* non-empty reply and a non-empty translation; when every candidate failed
\* or the output cannot be parsed both are the fixed "trouble responding"
\* texts, and an empty parsed field is replaced by its fixed text.
C14_ReplyNeverEmpty ==
    GemReturned("reply") =>
        /\ ~gem_result.raised
        /\ gem_result.bot_text # ""
        /\ gem_result.bot_translation # ""
        /\ ReplyUnusable =>
              /\ gem_result.bot_text = TroubleText
              /\ gem_result.bot_translation = TroubleTranslation
        /\ ~ReplyUnusable =>
              LET data == json_loads(Cleaned(raw_text))
                  bot_text == StrStrip(Get(data, "bot_text", ""))
                  bot_translation == StrStrip(Get(data, "bot_translation", ""))
              IN /\ gem_result.bot_text =
                       IF bot_text = "" THEN TroubleText ELSE bot_text
                 /\ gem_result.bot_translation =
                       IF bot_translation = "" THEN TroubleTranslation
                       ELSE bot_translation

\* an answer with a reply and no translation, after two failed candidates
C14_Witness ==
    /\ GemReturned("reply")
    /\ Len(attempted) = 3
    /\ gem_result.bot_text = "Hello"
    /\ gem_result.bot_translation = TroubleTranslation

(***************************************************************************)
(* Properties of the degraded stages of process_chat_turn (Spec).          *)
(***************************************************************************)
GrammarAllRaised(t) ==
    /\ "grammar" \in frame[t].calls
    /\ frame[t].grammar_loop.asked = Len(GEMINI_MODELS)
    /\ ~frame[t].grammar_loop.answered

Assembled(t) == frame[t].branch = "full" /\ frame[t].pc \in {"tts", "done"}

GrammarDegraded(t) ==
    /\ ~frame[t].grammar.raised
    /\ frame[t].grammar.grammar_score = Frac(0, 1)
    /\ frame[t].grammar.grammar_tip = "No grammar feedback due to a model error."
    /\ frame[t].grammar.mistakes = <<>>
    /\ frame[t].pc # "error"
    /\ frame[t].pc \in {"reply", "assemble", "tts"}
          => ENABLED (Reply(t) \/ Assemble(t) \/ Synthesize(t))

\* C13 as stated: when every candidate model raised, the grammar feedback is
\* score 0, the model-error tip and no mistakes, nothing is raised, and the
\* assembled result has grammar_score 0 and total_score equal to the mean of
\* the four scores with grammar counted as 0.
C13_AsStated ==
    \A t \in Turns :
        GrammarAllRaised(t) =>
            /\ GrammarDegraded(t)
            /\ Assembled(t) =>
                 /\ FracEq(frame[t].feedback.grammar_score, Frac(0, 1))
                 /\ FracEq(frame[t].feedback.total_score,
                           MeanOfFour(frame[t].feedback.pronunciation_score,
                                      frame[t].feedback.fluency_score,
                                      frame[t].feedback.intonation_score,
                                      Frac(0, 1)))

\* C13 amended: as above, with total_score equal to that mean rounded to one
\* decimal; every stage after the grammar call can take its step, so the
\* turn goes on to the assembled result.
C13_GrammarDegraded ==
    \A t \in Turns :
        GrammarAllRaised(t) =>
            /\ GrammarDegraded(t)
            /\ Assembled(t) =>
                 /\ FracEq(frame[t].feedback.grammar_score, Frac(0, 1))
                 /\ frame[t].feedback.total_score \in
                       RoundTenths(
                           MeanOfFour(frame[t].feedback.pronunciation_score,
                                      frame[t].feedback.fluency_score,
                                      frame[t].feedback.intonation_score,
                                      Frac(0, 1)))

C13_Witness ==
    \E t \in Turns :
        /\ GrammarAllRaised(t)
        /\ frame[t].pc = "done"
        /\ FracLt(Frac(0, 1), response[t].feedback.total_score)
        /\ response[t].feedback.improvement_tip =
              "No grammar feedback due to a model error."

SynthesisFailed(t) == frame[t].branch = "full" /\ frame[t].tts_raised

\* C15: when synthesis fails in a turn that passed the gate, the turn is
\* answered with the assembled result: the scores, the reply and the
\* transcripts computed before the synthesis, and no synthesized audio.
C15_SynthesisFailureAbsorbed ==
    \A t \in Turns :
        SynthesisFailed(t) =>
            /\ frame[t].pc = "done"
            /\ response[t].bot_audio_base64 = "None"
            /\ response[t].feedback = frame[t].feedback
            /\ response[t].bot_text = frame[t].reply.bot_text
            /\ response[t].bot_translation = frame[t].reply.bot_translation
            /\ response[t].user_transcript = frame[t].chosen_transcript
            /\ response[t].user_translation = frame[t].grammar.user_translation
            /\ response[t].is_unintelligible = FALSE

C15_Witness ==
    \E t \in Turns :
        /\ SynthesisFailed(t)
        /\ response[t].bot_text = "Hello"
        /\ FracLt(Frac(0, 1), response[t].feedback.total_score)
        /\ response[t].user_transcript # <<>>

DecodeFailed(t) ==
    "decode" \in frame[t].calls /\ req[t].audio_base64 = "malformed"

TranscriptionFailed(t) ==
    "stt" \in frame[t].calls /\ frame[t].stt_reason # "RecognizedSpeech"

LaterStages == {"pa", "intonation", "grammar", "reply", "tts"}

\* C16: when the decoding of the audio or the transcription fails, the turn
\* ends with an error for the caller: no result is returned, neither the
\* short-circuit one nor the assembled one, and neither the gate nor any
\* later stage has run.
C16_FatalStages ==
    \A t \in Turns :
        (DecodeFailed(t) \/ TranscriptionFailed(t)) =>
            /\ frame[t].pc = "error"
            /\ response[t] = NoResponse
            /\ frame[t].branch = "none"
            /\ frame[t].calls \cap LaterStages = {}
            /\ frame[t].user_txt = <<>> /\ ~frame[t].is_unintelligible
            /\ DecodeFailed(t) => "stt" \notin frame[t].calls

\* a transcription that ends with NoMatch for a turn with a client transcript
C16_Witness ==
    \E t \in Turns :
        /\ TranscriptionFailed(t)
        /\ frame[t].stt_reason = "NoMatch"
        /\ req[t].user_transcript = <<"b">>
        /\ frame[t].pc = "error"

(***************************************************************************)
(* Properties of the configuration (SpecCfg).                              *)
(***************************************************************************)
ParametersReturned == cfg_pc = "done"

\* the rate of a speed name as the specification states it
StatedRate(speed) ==
    IF speed = Some("slow") THEN Frac(8, 10)
    ELSE IF speed = Some("fast") THEN Frac(12, 10)
    ELSE Frac(1, 1)

\* C17: the rate returned by get_tts_parameters is 0.8, 1.0 or 1.2 for the
\* speed slow, normal or fast and 1.0 without a speed, except that with the
\* tone "Fast Native Speaker" it is at least 1.1 whether or not a speed is
\* set; without a configuration the result is the default voice and rate 1.0.
C17_SpeechRate ==
    ParametersReturned =>
        IF config = Nothing
        THEN /\ tts_parameters.voice = "en-US-AriaNeural"
             /\ FracEq(tts_parameters.speaking_rate, Frac(1, 1))
        ELSE LET stated == StatedRate(config[1].botSpeed)
             IN IF config[1].botTone = Some("Fast Native Speaker")
                THEN /\ FracLe(Frac(11, 10), tts_parameters.speaking_rate)
                     /\ FracEq(tts_parameters.speaking_rate,
                               IF FracLt(stated, Frac(11, 10))
                               THEN Frac(11, 10) ELSE stated)
                ELSE FracEq(tts_parameters.speaking_rate, stated)

MessagesBuilt == cfg_pc \in {"tts", "done"} /\ config # Nothing

\* the seven fields in the order of the clauses, with the text that
\* introduces the value and the text that ends the clause
ClauseFields ==
    <<[field |-> "scenario", label |-> "Scenario: ", end |-> "."],
      [field |-> "level", label |-> "Learner level: ", end |-> "."],
      [field |-> "userRole", label |-> "Learner role: ", end |-> "."],
      [field |-> "botTone", label |-> "Your tone: ", end |-> "."],
      [field |-> "goal", label |-> "Conversation goal: ", end |-> "."],
      [field |-> "durationMinutes", label |-> "Target duration: ",
       end |-> " minutes."],
      [field |-> "botSpeed", label |-> "Your speaking speed should be: ",
       end |-> "."]>>

ValueText(c, f) ==
    IF f = "durationMinutes" THEN ToString(c[f][1]) ELSE c[f][1]

\* a field that was sent, whatever its value
Sent(c, f) == c[f] # Nothing

\* a field that was sent and, unless it is the duration, is not the empty text
SentNonEmpty(c, f) ==
    /\ c[f] # Nothing
    /\ f # "durationMinutes" => c[f][1] # ""

\* the base sentence, then one clause for each field of fs, in the fixed order
StatedContent(c, fs) ==
    LET kept == SelectSeq(ClauseFields, LAMBDA cf : cf.field \in fs)
    IN JoinWords(<<BaseSentence>>
                 \o [n \in DOMAIN kept |->
                        <<kept[n].label, ValueText(c, kept[n].field),
                          kept[n].end>>])

FieldNames == {ClauseFields[n].field : n \in DOMAIN ClauseFields}

\* C18 as stated: the system message is the base sentence followed by
\* exactly one clause per present field (scenario, level, role, tone, goal,
\* duration, speed) in that order and nothing for an absent field, a
\* duration of 0 counting as present.
C18_AsStated ==
    MessagesBuilt =>
        LET c == config[1]
            present == {f \in FieldNames : Sent(c, f)}
        IN /\ messages[1].role = "system"
           /\ messages[1].content = StatedContent(c, present)
           /\ Len(messages[1].content) = 1 + 4 * Cardinality(present)

\* C18 amended: one clause per field that is present and, for the text
\* fields, not the empty string; a duration of 0 counts as present; the
\* number of clauses is the number of such fields.
C18_SystemMessage ==
    MessagesBuilt =>
        LET c == config[1]
            present == {f \in FieldNames : SentNonEmpty(c, f)}
        IN /\ messages[1].role = "system"
           /\ messages[1].content = StatedContent(c, present)
           /\ Len(messages[1].content) = 1 + 4 * Cardinality(present)
           /\ Len(messages) = 2

\* an empty scenario, a tone, a duration of 0 and a speed: three clauses
C18_Witness ==
    /\ MessagesBuilt
    /\ config[1].scenario = Some("")
    /\ config[1].botTone = Some("Calm")
    /\ config[1].durationMinutes = Some(0)
    /\ config[1].botSpeed = Some("fast")
    /\ config[1].level = Nothing /\ config[1].userRole = Nothing
    /\ config[1].goal = Nothing
    /\ Len(messages[1].content) = 13

\* C19 as stated: in every assembled result total_score equals the
\* arithmetic mean of the four reported scores.
C19_AsStated ==
    \A t \in Turns :
        Assembled(t) =>
            FracEq(frame[t].feedback.total_score,
                   MeanOfFour(frame[t].feedback.pronunciation_score,
                              frame[t].feedback.fluency_score,
                              frame[t].feedback.intonation_score,
                              frame[t].feedback.grammar_score))

\* C19 amended: total_score is the arithmetic mean of the four reported
\* scores rounded to one decimal; the reported scores are the accuracy, the
\* fluency, the intonation and the grammar score rounded to one decimal, and
\* the other fields come from the grammar feedback, the reply and the
\* transcript, so that the completeness score enters no field.
C19_TotalIsMeanOfFour ==
    \A t \in Turns :
        Assembled(t) =>
            LET fb == frame[t].feedback
            IN /\ fb.total_score \in
                     RoundTenths(MeanOfFour(fb.pronunciation_score,
                                            fb.fluency_score,
                                            fb.intonation_score,
                                            fb.grammar_score))
               /\ fb.pronunciation_score \in RoundTenths(frame[t].accuracy)
               /\ fb.fluency_score \in RoundTenths(frame[t].fluency)
               /\ fb.intonation_score \in
                     RoundTenths(frame[t].intonation_score)
               /\ fb.grammar_score \in
                     RoundTenths(frame[t].grammar.grammar_score)
               /\ fb.mistakes = frame[t].grammar.mistakes
               /\ fb.improvement_tip \in {frame[t].grammar.grammar_tip,
                                          frame[t].reply.bot_text}
               /\ frame[t].pc = "done" =>
                     /\ response[t].feedback = fb
                     /\ response[t].bot_text = frame[t].reply.bot_text
                     /\ response[t].bot_translation =
                           frame[t].reply.bot_translation
                     /\ response[t].user_transcript =
                           frame[t].chosen_transcript
                     /\ response[t].user_translation =
                           frame[t].grammar.user_translation

\* a completeness of 50 next to an accuracy of 70 and a total above 70
C19_Witness ==
    \E t \in Turns :
        /\ Assembled(t)
        /\ frame[t].pc = "done"
        /\ FracEq(frame[t].completeness, Frac(50, 1))
        /\ FracEq(response[t].feedback.pronunciation_score, Frac(70, 1))
        /\ FracLt(Frac(70, 1), response[t].feedback.total_score)

(***************************************************************************)
(* Properties of calculate_transcript_similarity (SpecSim).                *)
(***************************************************************************)
SwapCaseChar(c) == IF c = "a" THEN "A" ELSE IF c = "A" THEN "a" ELSE c

\* the same text with every letter in the other case
SwapCase(text) == [n \in DOMAIN text |-> SwapCaseChar(text[n])]

\* C20: calculate_transcript_similarity is case-insensitive and returns a
\* value in [0,1]; it returns 1.0 for two identical strings and 0.0 when
\* exactly one of the two strings is empty.
C20_Similarity ==
    sim_pc = "returned" =>
        /\ FracLe(Frac(0, 1), similarity) /\ FracLe(similarity, Frac(1, 1))
        /\ FracEq(similarity,
                  calculate_transcript_similarity(SwapCase(sim_text1),
                                                  sim_text2))
        /\ FracEq(similarity,
                  calculate_transcript_similarity(sim_text1,
                                                  SwapCase(sim_text2)))
        /\ sim_text1 = sim_text2 => FracEq(similarity, Frac(1, 1))
        /\ sim_text1 = SwapCase(sim_text2) => FracEq(similarity, Frac(1, 1))
        /\ ((sim_text1 = <<>>) # (sim_text2 = <<>>))
              => FracEq(similarity, Frac(0, 1))

\* two texts that differ in case only, and in every letter
C20_Witness ==
    /\ sim_pc = "returned"
    /\ sim_text1 = <<"a", "A", "b">>
    /\ sim_text2 = <<"A", "a", "b">>
    /\ FracEq(similarity, Frac(1, 1))

(***************************************************************************)
(* The transcript handed to the stages of a full turn (Spec).              *)
(***************************************************************************)
AssessmentInvoked(t) == "pa" \in frame[t].calls

\* the content of the user message appended to the reply prompt
UserContents(t) ==
    {frame[t].reply_messages[n].content :
        n \in {k \in DOMAIN frame[t].reply_messages :
                  frame[t].reply_messages[k].role = "user"}}

\* C22: whenever a turn has invoked the pronunciation assessment, the
\* reference text it passed is the recognizer's text stripped, whatever the
\* client's transcript is, and is not empty, so that the reference word
\* sequence derived from it has at least one element (the denominator of the
\* completeness score is not zero); the same transcript is the one sent to the
\* grammar feedback and to the reply prompt and reported as user_transcript.
C22_ReferenceIsRecognizerTranscript ==
    \A t \in Turns :
        AssessmentInvoked(t) =>
            /\ frame[t].pa_reference_text = strip(frame[t].stt_text)
            /\ frame[t].pa_reference_text # <<>>
            /\ Len(frame[t].pa_reference_words) >= 1
            /\ frame[t].pa_reference_words =
                   ReferenceWordsOf(frame[t].pa_reference_text)
            /\ "grammar" \in frame[t].calls =>
                   frame[t].grammar_transcript = frame[t].pa_reference_text
            /\ "reply" \in frame[t].calls =>
                   UserContents(t) = {frame[t].pa_reference_text}
            /\ frame[t].pc = "done" =>
                   response[t].user_transcript = frame[t].pa_reference_text

\* a full turn whose client transcript is supplied and differs from the
\* recognizer's stripped text, which itself differs from the raw text
C22_Witness ==
    \E t \in Turns :
        /\ AssessmentInvoked(t)
        /\ frame[t].pc = "done"
        /\ {"grammar", "reply"} \subseteq frame[t].calls
        /\ frame[t].user_txt # <<>>
        /\ frame[t].user_txt # frame[t].pa_reference_text
        /\ frame[t].stt_text # frame[t].pa_reference_text
        /\ response[t].user_transcript = strip(frame[t].stt_text)

====
